---- MODULE Spec2Model ----
(***************************************************************************)
(* Model of the search engine of MCP_Search.pyw: CacheManager,             *)
(* BaseSearchClient.search and SearchManager.search_category.              *)
(*                                                                         *)
(* The cache directory is a map from cache file name to the file's         *)
(* modification time and content.  The clock counts hours.  The network    *)
(* and the parsers are the environment: every live fetch draws its         *)
(* outcome (timeout, HTTP error, undecodable body, parser exception, or a  *)
(* parsed record list) from NetOutcomes.  A cache write may fail: open()   *)
(* raising leaves the directory as it was, pickle.dump raising leaves a    *)
(* truncated file that a later read cannot decode.  Removing an existing   *)
(* cache file is assumed to succeed.                                       *)
(***************************************************************************)
EXTENDS Integers, Sequences, FiniteSets, TLC

VARIABLES
    now,               \* time.time(), in hours
    cache,             \* the cache directory: file name -> [mtime, data]
    pc,                \* position of search_category
    category,          \* search_category: argument category
    query,             \* search_category: argument query
    progress_callback, \* search_category: argument progress_callback
    sources,           \* search_category: local sources
    i,                 \* search_category: index of the first-pass loop
    results,           \* search_category: local results
    failed_sources,    \* search_category: local failed_sources
    retry_list,        \* search_category: the copy failed_sources[:]
    j,                 \* search_category: index of the retry loop
    raised_by,         \* what made search_category raise ("" if nothing)
    log,               \* the search() calls of the running search_category
    last,              \* the most recent searchOnce call made on its own
    fetch,             \* the HTTP request search_category is waiting for
    other,             \* the HTTP request a second caller of search() is waiting for
    cancel,            \* the caller's request to cancel the running search_category
    input,             \* the arguments of a parser call
    output,            \* what the parser call returned
    config,            \* ConfigManager.config: the SEARCH_HISTORY section
    searched,          \* the terms add_to_search_history was called with, oldest first
    cache_log,         \* the cache_results calls made on their own and the last get_cached_results
    search_in_progress, \* MCPSearchGUI.search_in_progress
    loading_dialog,    \* MCPSearchGUI.loading_dialog: 0 for None, else the dialog it refers to
    current_results,   \* MCPSearchGUI.current_results: <<>> for {}, else the term the results are for
    search_button,     \* the state of MCPSearchGUI.search_button
    validate_button,   \* the state of MCPSearchGUI.validate_button
    threads,           \* the background threads that are running
    after_queue,       \* the callbacks scheduled with self.after(0, ...), oldest first
    dialogs,           \* the LoadingDialog windows that are open
    confirming,        \* the validate_sources calls waiting in messagebox.askyesno
    started,           \* the number of background threads started so far
    gui_log            \* the most recent step of the application and the handlers run so far

vars == <<now, cache, pc, category, query, progress_callback, sources, i,
          results, failed_sources, retry_list, j, raised_by, log, last,
          fetch, other, cancel, input, output, config, searched, cache_log,
          search_in_progress, loading_dialog, current_results, search_button,
          validate_button, threads, after_queue, dialogs, confirming, started, gui_log>>

-----------------------------------------------------------------------------
(* Bounds *)

MaxNow == 48

TickSteps == {24}

\* the longest README, in lines
MaxLines == 3

\* the longest response body, in items or lines
MaxItems == 2

\* the largest page of mixed elements, in elements
MaxNodes == 3

\* how far a page of equal elements goes beyond result_limit
MaxExtra == 2

\* the number of distinct search terms without a percent sign
MaxTerms == 11

\* the number of add_to_search_history calls of one session
MaxAdds == 3

\* the number of distinct cache_results calls made on their own
MaxSets == 2

\* the number of background threads one session starts
MaxThreads == 3

\* the number of validate_sources calls that wait for an answer together
MaxConfirm == 1

-----------------------------------------------------------------------------
(* Program constants *)

max_age_hours == 24

SecondsPerHour == 3600

-----------------------------------------------------------------------------
(* Records and configuration *)

SearchResult(n, d, u, g, s) ==
    [name |-> n, description |-> d, url |-> u, github_url |-> g,
     category |-> "", source |-> s, last_updated |-> ""]

RecA == SearchResult("Foo", "bar thing", "http://a", "", "Unknown")

RecB == SearchResult("Baz", "qux tool", "http://b", "https://github.com/o/b", "Unknown")

\* what a structured parser (JSON, HTML, markdown) can yield
RecordLists == {<<>>, <<RecA>>, <<RecA, RecB>>}

\* what the line-based text parse and the regex link fallback can yield
FallbackLists == {<<>>, <<SearchResult("some line", "Content from Unknown", "", "", "Unknown")>>}

\* The [SOURCE_<id>] sections of the configuration file.
ConfigSections ==
    [s \in {"s1", "s2", "s4", "s5"} |->
        CASE s = "s1" -> [search_method |-> "api", search_endpoint |-> "https://x/api?q={query}"]
          [] s = "s2" -> [search_method |-> "awesome_list", search_repo |-> "o/r"]
          [] s = "s4" -> [search_method |-> "rss"]
          [] s = "s5" -> [search_method |-> "url_param"]]

\* The [CATEGORIES] section: category -> comma separated source ids.
Categories ==
    [c \in {"servers", "tools", "agents", "misc"} |->
        CASE c = "servers" -> <<"s1", "s2">>
          [] c = "tools"   -> <<"s3", "s1">>
          [] c = "agents"  -> <<"s2", "s2">>
          [] c = "misc"    -> <<"s5">>]

Sources == {"s1", "s2", "s3", "s4", "s5"}

Queries == {"q"}

CategoryArgs == {"servers", "tools", "agents", "misc", "nosuch"}

Get(d, k, default) == IF k \in DOMAIN d THEN d[k] ELSE default

get_categories == Categories

get_source_config(source_id) ==
    IF source_id \in DOMAIN ConfigSections THEN ConfigSections[source_id] ELSE [k \in {} |-> ""]

-----------------------------------------------------------------------------
(* CacheManager *)

\* a cache file: modification time, whether pickle.load can decode it, content
CacheFile(t, d) == [mtime |-> t, ok |-> TRUE, data |-> d]

CorruptFile(t) == [mtime |-> t, ok |-> FALSE, data |-> <<>>]

None == [some |-> FALSE, val |-> <<>>]

Some(v) == [some |-> TRUE, val |-> v]

\* md5 is taken as injective on the combined string
_get_cache_key(source, q) == source \o "_" \o q

_get_cache_file(cache_key) == cache_key \o ".pkl"

RemoveFile(c, f) == [x \in DOMAIN c \ {f} |-> c[x]]

WriteFile(c, f, e) == [x \in DOMAIN c \cup {f} |-> IF x = f THEN e ELSE c[x]]

\* is_expired with ">=" for ">"
is_expired_at_ttl(file_age) == file_age >= max_age_hours * SecondsPerHour

\* is_expired comparing seconds with hours
is_expired_in_hours(file_age) == file_age > max_age_hours

\* "file_age > max_age_hours * 3600", file_age in seconds
is_expired(file_age) == file_age > max_age_hours * SecondsPerHour

\* load_except without the os.remove
load_except_keep(c, cache_file) ==
    [value |-> None, cache |-> c, evicted |-> FALSE]

\* the handler "except Exception: ... os.remove(cache_file) ... return None"
load_except(c, cache_file) ==
    [value |-> None, cache |-> RemoveFile(c, cache_file), evicted |-> TRUE]

get_cached_results(c, source, q, t) ==
    LET cache_file == _get_cache_file(_get_cache_key(source, q))
    IN  IF cache_file \notin DOMAIN c
        THEN [value |-> None, cache |-> c, evicted |-> FALSE]
        ELSE LET file_age == (t - c[cache_file].mtime) * SecondsPerHour
             IN  IF is_expired(file_age)
                 THEN [value |-> None, cache |-> RemoveFile(c, cache_file), evicted |-> TRUE]
                 ELSE IF ~c[cache_file].ok
                      THEN load_except(c, cache_file)
                      ELSE [value |-> Some(c[cache_file].data), cache |-> c, evicted |-> FALSE]

WriteOutcomes == {"ok", "open_error", "dump_error"}

\* cache_results dumping only the first record
cache_results_first(c, source, q, res, t, w) ==
    LET cache_file == _get_cache_file(_get_cache_key(source, q))
    IN  CASE w = "ok"         -> WriteFile(c, cache_file, CacheFile(t, <<Head(res)>>))
          [] w = "open_error" -> c
          [] w = "dump_error" -> WriteFile(c, cache_file, CorruptFile(t))

cache_results(c, source, q, res, t, w) ==
    LET cache_file == _get_cache_file(_get_cache_key(source, q))
    IN  CASE w = "ok"         -> WriteFile(c, cache_file, CacheFile(t, res))
          [] w = "open_error" -> c
          [] w = "dump_error" -> WriteFile(c, cache_file, CorruptFile(t))

-----------------------------------------------------------------------------
(* The environment of one live fetch: how the HTTP call ends and, when a   *)
(* parser runs to its end on the body, the list it yields (parsed).        *)

NetOutcomes ==
    [status : {"ok"}, parsed : RecordLists]
    \cup [status : {"bad_json", "parser_exception"}, parsed : FallbackLists]
    \cup [status : {"timeout", "http_error"}, parsed : {<<>>}]

\* one live fetch and the cache write after it; how the write ends matters
\* only when a list was parsed
Environments ==
    {e \in [net : NetOutcomes, write : WriteOutcomes] : e.net.parsed = <<>> => e.write = "ok"}

IsRequestException(net) == net.status \in {"timeout", "http_error"}

\* outcome of one extraction strategy
Returned(res, h, k) == [raised |-> FALSE, results |-> res, http |-> h, kind |-> k]

Raised(h) == [raised |-> TRUE, results |-> <<>>, http |-> h, kind |-> "exception"]

_search_api(source_config, q, net) ==
    LET endpoint == Get(source_config, "search_endpoint", "")
    IN  IF endpoint = "" THEN Returned(<<>>, 0, "missing_field")
        ELSE CASE IsRequestException(net)          -> Returned(<<>>, 1, "request_failed")
               [] net.status = "ok"                -> Returned(net.parsed, 1, "parsed")
               [] net.status = "bad_json"          -> Returned(net.parsed, 1, "text_fallback")  \* _parse_text_response
               [] net.status = "parser_exception"  -> Raised(1)

_search_url_param(source_config, q, net) ==
    LET search_endpoint == Get(source_config, "search_endpoint", "")
    IN  IF search_endpoint = "" THEN Returned(<<>>, 0, "missing_field")
        ELSE CASE IsRequestException(net)          -> Returned(<<>>, 1, "request_failed")
               [] net.status = "parser_exception"  -> Returned(net.parsed, 1, "html_fallback")  \* _basic_fallback_parsing
               [] OTHER                            -> Returned(net.parsed, 1, "parsed")

_search_github_api(source_config, q, net) ==
    LET repo == Get(source_config, "search_repo", "")
    IN  IF repo = "" THEN Returned(<<>>, 0, "missing_field")
        ELSE CASE IsRequestException(net)          -> Returned(<<>>, 1, "request_failed")
               [] net.status = "bad_json"          -> Raised(1)
               [] OTHER                            -> Returned(<<SearchResult("r", "", "https://github.com/" \o repo, "https://github.com/" \o repo, "Unknown")>>, 1, "parsed")

_search_awesome_list(source_config, q, net) ==
    LET repo == Get(source_config, "search_repo", "")
    IN  IF repo = "" THEN Returned(<<>>, 0, "missing_field")
        ELSE CASE IsRequestException(net)          -> Returned(<<>>, 1, "request_failed")
               [] net.status = "ok"                -> Returned(net.parsed, 1, "parsed")
               [] OTHER                            -> Returned(<<>>, 1, "caught")  \* except Exception

_search_scrape(source_config, q, net) ==
    LET base_url == Get(source_config, "url", "")
    IN  IF base_url = "" THEN Returned(<<>>, 0, "missing_field")
        ELSE CASE IsRequestException(net)          -> Returned(<<>>, 1, "request_failed")
               [] net.status = "parser_exception"  -> Raised(1)  \* save_search_results outside the try
               [] OTHER                            -> Returned(net.parsed, 1, "parsed")

-----------------------------------------------------------------------------
(* BaseSearchClient.search.  The outcome records what the call returned    *)
(* (ret), whether an exception left the call (raised), the cache directory *)
(* after the call, and what the call did on the way: the branch it took    *)
(* (path), its configuration lookups, HTTP requests and cache reads,       *)
(* whether the read removed a file, and how its cache write ended ("" when *)
(* it wrote nothing).                                                      *)

SearchOutcome(r, x, c, p, cfgs, h, rd, ev, wr) ==
    [ret |-> r, raised |-> x, cache |-> c, path |-> p, config_lookups |-> cfgs,
     http |-> h, cache_reads |-> rd, evicted |-> ev, write |-> wr]

\* search_except re-raising
search_except_reraise(c, h, rd, ev) ==
    SearchOutcome(<<>>, TRUE, c, "exception", 1, h, rd, ev, "")

\* the handler "except Exception as e: ... return []"
search_except(c, h, rd, ev) ==
    SearchOutcome(<<>>, FALSE, c, "exception", 1, h, rd, ev, "")

\* should_cache without the use_cache test
should_cache_any(use_cache, res) == res # <<>>

\* "if use_cache and results"
should_cache(use_cache, res) == use_cache /\ res # <<>>

search(c, t, source_id, q, use_cache, net, w) ==
    LET g  == IF use_cache THEN get_cached_results(c, source_id, q, t)
              ELSE [value |-> None, cache |-> c, evicted |-> FALSE]
        rd == IF use_cache THEN 1 ELSE 0
    IN  IF use_cache /\ g.value.some
        THEN SearchOutcome(g.value.val, FALSE, g.cache, "hit", 0, 0, rd, g.evicted, "")
        ELSE
        LET source_config == get_source_config(source_id)
        IN  IF DOMAIN source_config = {}
            THEN SearchOutcome(<<>>, FALSE, g.cache, "no_config", 1, 0, rd, g.evicted, "")
            ELSE
            LET search_method == Get(source_config, "search_method", "scrape")
            IN  IF search_method \notin {"api", "url_param", "github_api", "awesome_list", "scrape"}
                THEN SearchOutcome(<<>>, FALSE, g.cache, "unknown_method", 1, 0, rd, g.evicted, "")
                ELSE
                LET x == CASE search_method = "api"          -> _search_api(source_config, q, net)
                           [] search_method = "url_param"    -> _search_url_param(source_config, q, net)
                           [] search_method = "github_api"   -> _search_github_api(source_config, q, net)
                           [] search_method = "awesome_list" -> _search_awesome_list(source_config, q, net)
                           [] search_method = "scrape"       -> _search_scrape(source_config, q, net)
                IN  IF x.raised
                    THEN search_except(g.cache, x.http, rd, g.evicted)
                    ELSE IF should_cache(use_cache, x.results)
                         THEN SearchOutcome(x.results, FALSE,
                                            cache_results(g.cache, source_id, q, x.results, t, w),
                                            x.kind, 1, x.http, rd, g.evicted, w)
                         ELSE SearchOutcome(x.results, FALSE, g.cache, x.kind, 1, x.http, rd, g.evicted, "")

-----------------------------------------------------------------------------
(* State *)

EmptyMap == [k \in {} |-> <<>>]

Put(m, k, v) == [x \in DOMAIN m \cup {k} |-> IF x = k THEN v ELSE m[x]]

\* list.remove: drops the first occurrence
RECURSIVE Remove(_, _)
Remove(seq, x) ==
    IF seq = <<>> THEN <<>>
    ELSE IF Head(seq) = x THEN Tail(seq)
    ELSE <<Head(seq)>> \o Remove(Tail(seq), x)

\* the cache file of (source, q) as a call finds or leaves it
FileOf(c, source, q) ==
    LET f == _get_cache_file(_get_cache_key(source, q))
    IN  IF f \in DOMAIN c
        THEN [exists |-> TRUE, ok |-> c[f].ok, mtime |-> c[f].mtime, data |-> c[f].data]
        ELSE [exists |-> FALSE, ok |-> FALSE, mtime |-> 0, data |-> <<>>]

NoFile == [exists |-> FALSE, ok |-> FALSE, mtime |-> 0, data |-> <<>>]

NoPrev == [same |-> FALSE, t |-> 0, ret |-> <<>>, path |-> "", write |-> "", post |-> NoFile]

NoCall ==
    [source |-> "", query |-> "", use_cache |-> FALSE,
     t |-> 0, ret |-> <<>>, raised |-> FALSE, path |-> "", config_lookups |-> 0,
     http |-> 0, cache_reads |-> 0, evicted |-> FALSE, write |-> "",
     pre |-> NoFile, post |-> NoFile, prev |-> NoPrev]

\* what is remembered of a searchOnce call: its arguments and time, its
\* outcome, the cache file of its key before (pre) and after (post) it, and
\* the call before it when that one had the same key and also used the cache
CallRecord(o, source, q, use_cache) ==
    [source |-> source, query |-> q, use_cache |-> use_cache,
     t |-> now, ret |-> o.ret, raised |-> o.raised, path |-> o.path,
     config_lookups |-> o.config_lookups, http |-> o.http, cache_reads |-> o.cache_reads,
     evicted |-> o.evicted, write |-> o.write,
     pre |-> FileOf(cache, source, q), post |-> FileOf(o.cache, source, q),
     prev |-> IF last.source = source /\ last.query = q /\ last.use_cache /\ use_cache
              THEN [same |-> TRUE, t |-> last.t, ret |-> last.ret, path |-> last.path,
                    write |-> last.write, post |-> last.post]
              ELSE NoPrev]

LogEntry(o, source, pass) ==
    [source |-> source, pass |-> pass, ret |-> o.ret, path |-> o.path,
     cache_reads |-> o.cache_reads]

\* the outcomes search() can have in the current state, over all environments
SearchOutcomes(source_id, q, use_cache) ==
    {search(cache, now, source_id, q, use_cache, e.net, e.write) : e \in Environments}

Callbacks == {"none", "cb"}

\* no request in flight
NoFetch == [active |-> FALSE, source |-> "", query |-> "", use_cache |-> FALSE]

\* no cancellation requested
NoCancel == [requested |-> FALSE, fetched |-> 0, results |-> EmptyMap]

NoInput == [kind |-> "none"]

NoOutput == [returned |-> FALSE, results |-> <<>>]

\* the search engine after construction
InitEngine ==
    /\ now = 0
    /\ cache = [f \in {} |-> CorruptFile(0)]
    /\ pc = "idle"
    /\ category = ""
    /\ query = ""
    /\ progress_callback = "none"
    /\ sources = <<>>
    /\ i = 1
    /\ results = EmptyMap
    /\ failed_sources = <<>>
    /\ retry_list = <<>>
    /\ j = 1
    /\ raised_by = ""
    /\ log = <<>>
    /\ last = NoCall
    /\ fetch = NoFetch
    /\ other = NoFetch
    /\ cancel = NoCancel

\* a ConfigParser that read a file without a SEARCH_HISTORY section
NoHistory == [SEARCH_HISTORY |-> None]

\* no cache_results call and no get_cached_results call made on its own yet
NoCacheLog == [sets |-> {}, got |-> [source |-> "", query |-> "", value |-> None]]

\* the fields of the window and what belongs to it, as one value
GuiState ==
    [search_in_progress |-> search_in_progress, loading_dialog |-> loading_dialog,
     current_results |-> current_results, search_button |-> search_button,
     validate_button |-> validate_button, threads |-> threads,
     after_queue |-> after_queue, dialogs |-> dialogs, config |-> config]

\* MCPSearchGUI.__init__: the application state after construction
InitGui ==
    /\ search_in_progress = FALSE
    /\ loading_dialog = 0
    /\ current_results = <<>>
    /\ search_button = "normal"
    /\ validate_button = "normal"
    /\ threads = {}
    /\ after_queue = <<>>
    /\ dialogs = {}
    /\ confirming = 0
    /\ started = 0
    /\ gui_log = [op |-> "", before |-> <<>>, handled |-> <<>>]

gui_vars == <<search_in_progress, loading_dialog, current_results, search_button,
              validate_button, threads, after_queue, dialogs, confirming, started, gui_log>>

\* the application after construction, with no earlier session
InitApp ==
    /\ config = NoHistory
    /\ searched = <<>>
    /\ cache_log = NoCacheLog
    /\ InitGui

Init ==
    /\ InitEngine
    /\ input = NoInput
    /\ output = NoOutput
    /\ InitApp

parser_vars == <<input, output>>

app_vars == <<config, searched, cache_log, gui_vars>>

thread_vars == <<fetch, other, cancel>>

category_locals == <<category, query, progress_callback, sources, i, results,
                     failed_sources, retry_list, j, raised_by, log>>

\* the clock advances; a category search ends within one step of the clock
Tick ==
    /\ pc = "idle"
    /\ \E d \in TickSteps : now + d <= MaxNow /\ now' = now + d
    /\ UNCHANGED <<app_vars, cache, pc, category_locals, last, thread_vars, parser_vars>>

\* searchOnce called on its own (single-source testing)
SearchOnce(source_id, q, use_cache) ==
    /\ pc = "idle"
    /\ \E o \in SearchOutcomes(source_id, q, use_cache) :
          /\ cache' = o.cache
          /\ last' = CallRecord(o, source_id, q, use_cache)
    /\ UNCHANGED <<app_vars, now, pc, category_locals, thread_vars, parser_vars>>

\* search_category up to the first-pass loop
StartCategory(cat, q, cb) ==
    /\ pc = "idle"
    /\ category' = cat
    /\ query' = q
    /\ progress_callback' = cb
    /\ LET categories == get_categories
       IN  IF cat \notin DOMAIN categories
           THEN /\ pc' = "done"
                /\ sources' = <<>>
           ELSE /\ pc' = "first"
                /\ sources' = categories[cat]
    /\ i' = 1
    /\ results' = EmptyMap
    /\ failed_sources' = <<>>
    /\ retry_list' = <<>>
    /\ j' = 1
    /\ raised_by' = ""
    /\ log' = <<>>
    /\ UNCHANGED <<app_vars, now, cache, last, thread_vars, parser_vars>>

\* progress_callback raises: its calls are outside every try
CallbackRaises ==
    /\ progress_callback # "none"
    /\ ~fetch.active
    /\ \/ pc = "first" /\ i <= Len(sources)
       \/ pc = "first" /\ i > Len(sources) /\ failed_sources # <<>>
    /\ pc' = "raised"
    /\ raised_by' = "progress_callback"
    /\ UNCHANGED <<app_vars, now, cache, category, query, progress_callback, sources, i, results,
                   failed_sources, retry_list, j, log, last, thread_vars, parser_vars>>

\* first_pass_try giving up on an empty result
first_pass_try_abort(o, source_id) ==
    IF ~o.raised /\ o.ret # <<>>
    THEN [results |-> Put(results, source_id, o.ret), failed_sources |-> failed_sources, raised |-> FALSE]
    ELSE [results |-> results, failed_sources |-> Append(failed_sources, source_id), raised |-> TRUE]

\* first_pass_try without the "if source_results" test
first_pass_try_store_all(o, source_id) ==
    IF o.raised
    THEN [results |-> results, failed_sources |-> Append(failed_sources, source_id), raised |-> FALSE]
    ELSE [results |-> Put(results, source_id, o.ret), failed_sources |-> failed_sources, raised |-> FALSE]

\* the body of the first-pass try: what the iteration leaves in results and failed_sources
first_pass_try(o, source_id) ==
    IF o.raised
    THEN [results |-> results, failed_sources |-> Append(failed_sources, source_id), raised |-> FALSE]
    ELSE IF o.ret # <<>>
         THEN [results |-> Put(results, source_id, o.ret), failed_sources |-> failed_sources, raised |-> FALSE]
         ELSE [results |-> results, failed_sources |-> Append(failed_sources, source_id), raised |-> FALSE]

\* one iteration of "for i, source_id in enumerate(sources)"
FirstPass ==
    /\ pc = "first"
    /\ i <= Len(sources)
    /\ LET source_id == sources[i]
       IN  \E o \in SearchOutcomes(source_id, query, TRUE) :
             LET b == first_pass_try(o, source_id)
             IN  /\ cache' = o.cache
                 /\ log' = Append(log, LogEntry(o, source_id, "first"))
                 /\ results' = b.results
                 /\ failed_sources' = b.failed_sources
                 /\ IF b.raised
                    THEN pc' = "raised" /\ raised_by' = "search" /\ UNCHANGED i
                    ELSE i' = i + 1 /\ UNCHANGED <<pc, raised_by>>
    /\ UNCHANGED <<app_vars, now, category, query, progress_callback, sources, retry_list, j, last, thread_vars, parser_vars>>

\* the retry loop runs only under "if failed_sources and progress_callback"
retry_condition == failed_sources # <<>> /\ progress_callback # "none"

\* after the first pass: enter the retry loop, or return the results
AfterFirstPass ==
    /\ pc = "first"
    /\ i > Len(sources)
    /\ IF retry_condition
       THEN /\ pc' = "retry"
            /\ retry_list' = failed_sources
            /\ j' = 1
       ELSE /\ pc' = "done"
            /\ UNCHANGED <<retry_list, j>>
    /\ UNCHANGED <<app_vars, now, cache, category, query, progress_callback, sources, i, results,
                   failed_sources, raised_by, log, last, thread_vars, parser_vars>>

\* the retry's use_cache argument
retry_use_cache == FALSE

\* one iteration of "for source_id in failed_sources[:]"
Retry ==
    /\ pc = "retry"
    /\ j <= Len(retry_list)
    /\ LET source_id == retry_list[j]
       IN  \E o \in SearchOutcomes(source_id, query, retry_use_cache) :
                 /\ cache' = o.cache
                 /\ log' = Append(log, LogEntry(o, source_id, "retry"))
                 /\ IF ~o.raised /\ o.ret # <<>>
                    THEN /\ results' = Put(results, source_id, o.ret)
                         /\ failed_sources' = Remove(failed_sources, source_id)
                    ELSE UNCHANGED <<results, failed_sources>>
    /\ j' = j + 1
    /\ UNCHANGED <<app_vars, now, pc, category, query, progress_callback, sources, i, retry_list,
                   raised_by, last, thread_vars, parser_vars>>

\* the retry loop is over: return the results
AfterRetry ==
    /\ pc = "retry"
    /\ j > Len(retry_list)
    /\ pc' = "done"
    /\ UNCHANGED <<app_vars, now, cache, category, query, progress_callback, sources, i, results,
                   failed_sources, retry_list, j, raised_by, log, last, thread_vars, parser_vars>>

\* the caller takes the returned map (or the exception)
Return ==
    /\ pc \in {"done", "raised"}
    /\ pc' = "idle"
    /\ category' = ""
    /\ query' = ""
    /\ progress_callback' = "none"
    /\ sources' = <<>>
    /\ i' = 1
    /\ results' = EmptyMap
    /\ failed_sources' = <<>>
    /\ retry_list' = <<>>
    /\ j' = 1
    /\ raised_by' = ""
    /\ log' = <<>>
    /\ cancel' = NoCancel
    /\ UNCHANGED <<app_vars, now, cache, last, fetch, other, parser_vars>>

\* single searchOnce calls over the cache and the clock
NextOnce ==
    \/ Tick
    \/ \E s \in Sources, q \in Queries, uc \in BOOLEAN : SearchOnce(s, q, uc)

SpecOnce == Init /\ [][NextOnce]_vars

\* category searches over the cache and the clock
Next ==
    \/ Tick
    \/ \E c \in CategoryArgs, q \in Queries, cb \in Callbacks : StartCategory(c, q, cb)
    \/ CallbackRaises
    \/ FirstPass
    \/ AfterFirstPass
    \/ Retry
    \/ AfterRetry
    \/ Return

Spec == Init /\ [][Next]_vars

-----------------------------------------------------------------------------
(* Concurrent callers.  search() blocks in session.get(); while it waits,  *)
(* another thread can call search() on the same BaseSearchClient.  The     *)
(* call is split where it blocks: search_begin is the call up to the       *)
(* request, search_end the rest of it once the response is there.          *)
(* search_category takes no cancellation token and reads no flag, so the   *)
(* caller's request to cancel changes nothing the code reads.              *)

\* search() up to the HTTP request: sent tells whether a request went out;
\* when none did, outcome is what the call returned
search_begin(c, t, source_id, q, use_cache) ==
    LET probe == [status |-> "ok", parsed |-> <<>>]
        o     == search(c, t, source_id, q, use_cache, probe, "ok")
    IN  IF o.http = 0
        THEN [sent |-> FALSE, cache |-> o.cache, outcome |-> o]
        ELSE [sent |-> TRUE,
              cache |-> IF use_cache THEN get_cached_results(c, source_id, q, t).cache ELSE c,
              outcome |-> o]

\* search() from the response on: the strategy's parse and the cache write,
\* on the cache directory as it is by then
search_end(c, t, source_id, q, use_cache, net, w) ==
    LET o  == search(c, t, source_id, q, FALSE, net, w)
        rd == IF use_cache THEN 1 ELSE 0
    IN  IF should_cache(use_cache, o.ret)
        THEN [o EXCEPT !.cache = cache_results(c, source_id, q, o.ret, t, w),
                       !.write = w, !.cache_reads = rd]
        ELSE [o EXCEPT !.cache_reads = rd]

\* the outcomes the rest of a search() can have, over all environments
ResponseOutcomes(source_id, q, use_cache) ==
    {search_end(cache, now, source_id, q, use_cache, e.net, e.write) : e \in Environments}

Request(source_id, q, use_cache) ==
    [active |-> TRUE, source |-> source_id, query |-> q, use_cache |-> use_cache]

\* a request that goes out after the caller asked to cancel
CountFetch == IF cancel.requested THEN [cancel EXCEPT !.fetched = 1] ELSE cancel

\* a first-pass iteration up to the point where search() blocks
FirstPassBegin ==
    /\ pc = "first"
    /\ i <= Len(sources)
    /\ ~fetch.active
    /\ LET source_id == sources[i]
           b == search_begin(cache, now, source_id, query, TRUE)
       IN  /\ cache' = b.cache
           /\ IF b.sent
              THEN /\ fetch' = Request(source_id, query, TRUE)
                   /\ cancel' = CountFetch
                   /\ UNCHANGED <<log, results, failed_sources, i>>
              ELSE LET r == first_pass_try(b.outcome, source_id)
                   IN  /\ log' = Append(log, LogEntry(b.outcome, source_id, "first"))
                       /\ results' = r.results
                       /\ failed_sources' = r.failed_sources
                       /\ i' = i + 1
                       /\ UNCHANGED <<fetch, cancel>>
    /\ UNCHANGED <<app_vars, now, pc, category, query, progress_callback, sources, retry_list, j,
                   raised_by, last, other, parser_vars>>

\* the response of the first-pass request arrives
FirstPassEnd ==
    /\ pc = "first"
    /\ fetch.active
    /\ \E o \in ResponseOutcomes(fetch.source, query, TRUE) :
          LET r == first_pass_try(o, fetch.source)
          IN  /\ cache' = o.cache
              /\ log' = Append(log, LogEntry(o, fetch.source, "first"))
              /\ results' = r.results
              /\ failed_sources' = r.failed_sources
    /\ i' = i + 1
    /\ fetch' = NoFetch
    /\ UNCHANGED <<app_vars, now, pc, category, query, progress_callback, sources, retry_list, j,
                   raised_by, last, other, cancel, parser_vars>>

\* a retry iteration up to the point where search() blocks
RetryBegin ==
    /\ pc = "retry"
    /\ j <= Len(retry_list)
    /\ ~fetch.active
    /\ LET source_id == retry_list[j]
           b == search_begin(cache, now, source_id, query, retry_use_cache)
       IN  /\ cache' = b.cache
           /\ IF b.sent
              THEN /\ fetch' = Request(source_id, query, retry_use_cache)
                   /\ cancel' = CountFetch
                   /\ UNCHANGED <<log, j>>
              ELSE /\ log' = Append(log, LogEntry(b.outcome, source_id, "retry"))
                   /\ j' = j + 1
                   /\ UNCHANGED <<fetch, cancel>>
    /\ UNCHANGED <<app_vars, now, pc, category, query, progress_callback, sources, i, results,
                   failed_sources, retry_list, raised_by, last, other, parser_vars>>

\* the response of the retry request arrives
RetryEnd ==
    /\ pc = "retry"
    /\ fetch.active
    /\ \E o \in ResponseOutcomes(fetch.source, query, retry_use_cache) :
          /\ cache' = o.cache
          /\ log' = Append(log, LogEntry(o, fetch.source, "retry"))
          /\ IF ~o.raised /\ o.ret # <<>>
             THEN /\ results' = Put(results, fetch.source, o.ret)
                  /\ failed_sources' = Remove(failed_sources, fetch.source)
             ELSE UNCHANGED <<results, failed_sources>>
    /\ j' = j + 1
    /\ fetch' = NoFetch
    /\ UNCHANGED <<app_vars, now, pc, category, query, progress_callback, sources, i, retry_list,
                   raised_by, last, other, cancel, parser_vars>>

\* a second thread calls search(source_id, q) while search_category runs
OtherBegin(source_id, q) ==
    /\ pc \in {"first", "retry"}
    /\ ~other.active
    /\ LET b == search_begin(cache, now, source_id, q, TRUE)
       IN  /\ cache' = b.cache
           /\ other' = IF b.sent THEN Request(source_id, q, TRUE) ELSE other
    /\ UNCHANGED <<app_vars, now, pc, category_locals, last, fetch, cancel, parser_vars>>

\* the response of the second thread's request arrives
OtherEnd ==
    /\ other.active
    /\ \E c \in {o.cache : o \in ResponseOutcomes(other.source, other.query, TRUE)} :
          cache' = c
    /\ other' = NoFetch
    /\ UNCHANGED <<app_vars, now, pc, category_locals, last, fetch, cancel, parser_vars>>

\* the caller of a running search_category asks for it to be cancelled
RequestCancel ==
    /\ pc \in {"first", "retry"}
    /\ ~cancel.requested
    /\ cancel' = [requested |-> TRUE, fetched |-> 0, results |-> results]
    /\ UNCHANGED <<app_vars, now, cache, pc, category_locals, last, fetch, other, parser_vars>>

\* a category search, a second caller of search() and the cancel request
NextThreads ==
    \/ \E c \in CategoryArgs, q \in Queries, cb \in Callbacks : StartCategory(c, q, cb)
    \/ CallbackRaises
    \/ FirstPassBegin
    \/ FirstPassEnd
    \/ AfterFirstPass
    \/ RetryBegin
    \/ RetryEnd
    \/ AfterRetry
    \/ Return
    \/ \E s \in Sources, q \in Queries : OtherBegin(s, q)
    \/ OtherEnd
    \/ RequestCancel

SpecThreads == Init /\ [][NextThreads]_vars

-----------------------------------------------------------------------------
(* Text.  A Python str is a sequence of one-character strings; the         *)
(* operators below are the str and re operations the parsers use.          *)

Whitespace == {" ", "\t"}

Digits == {"0", "1", "2", "3", "4", "5", "6", "7", "8", "9"}

UpperCase == <<"A", "B", "C", "D", "E", "F", "G", "H", "I", "J", "K", "L", "M", "N", "O", "P", "Q", "R", "S", "T", "U", "V", "W", "X", "Y", "Z">>

LowerCase == <<"a", "b", "c", "d", "e", "f", "g", "h", "i", "j", "k", "l", "m", "n", "o", "p", "q", "r", "s", "t", "u", "v", "w", "x", "y", "z">>

\* str.lower
lower(s) ==
    LET lower_char(c) ==
            IF \E k \in DOMAIN UpperCase : UpperCase[k] = c
            THEN LowerCase[CHOOSE k \in DOMAIN UpperCase : UpperCase[k] = c]
            ELSE c
    IN  [k \in 1..Len(s) |-> lower_char(s[k])]

\* str.startswith
startswith(s, prefix) == Len(prefix) <= Len(s) /\ SubSeq(s, 1, Len(prefix)) = prefix

\* "sub in s"
In(sub, s) == \E k \in 0..(Len(s) - Len(sub)) : SubSeq(s, k + 1, k + Len(sub)) = sub

\* s[m-1:n]: the characters at the positions m..n that exist
Slice(s, m, n) ==
    LET first == IF m < 1 THEN 1 ELSE m
        last_ == IF n > Len(s) THEN Len(s) ELSE n
    IN  IF first > last_ THEN <<>> ELSE SubSeq(s, first, last_)

\* s[p-1:]
From(s, p) == Slice(s, p, Len(s))

\* the first position from p on whose character is not in chars (Len(s) + 1 if none)
SkipWhile(s, p, chars) ==
    CHOOSE q \in p..(Len(s) + 1) :
        /\ \A r \in p..(q - 1) : s[r] \in chars
        /\ q <= Len(s) => s[q] \notin chars

\* the first position from p on that holds character c (0 if none)
Find(s, p, c) ==
    IF \E q \in p..Len(s) : s[q] = c
    THEN CHOOSE q \in p..Len(s) : s[q] = c /\ \A r \in p..(q - 1) : s[r] # c
    ELSE 0

\* str.strip(chars)
strip_chars(s, chars) ==
    LET \* the last position whose character is not in chars (0 if none)
        LastNotIn ==
            CHOOSE q \in 0..Len(s) :
                /\ \A r \in (q + 1)..Len(s) : s[r] \in chars
                /\ q >= 1 => s[q] \notin chars
    IN  Slice(s, SkipWhile(s, 1, chars), LastNotIn)

\* str.strip()
strip(s) == strip_chars(s, Whitespace)

\* str.split(sep) for a one-character separator
RECURSIVE split(_, _)
split(s, sep) ==
    LET q == Find(s, 1, sep)
    IN  IF q = 0 THEN <<s>>
        ELSE <<Slice(s, 1, q - 1)>> \o split(From(s, q + 1), sep)

\* sep.join(parts)
RECURSIVE join(_, _)
join(parts, sep) ==
    IF parts = <<>> THEN <<>>
    ELSE IF Len(parts) = 1 THEN parts[1]
    ELSE parts[1] \o sep \o join(Tail(parts), sep)

\* s[:n]
Prefix(s, n) == Slice(s, 1, IF Len(s) < n THEN Len(s) ELSE n)

-----------------------------------------------------------------------------
(* BaseSearchClient._parse_awesome_list_content: the markdown list parser  *)

\* what re.match gives: the link text, the link target, the third group, and
\* (for the properties) everything of the line after the link
Match(n, u, t, r) == [ok |-> TRUE, name |-> n, url |-> u, text |-> t, rest |-> r]

NoMatch == [ok |-> FALSE, name |-> <<>>, url |-> <<>>, text |-> <<>>, rest |-> <<>>]

\* \[([^\]]+)\]\(([^)]+)\) at position p of s
match_link(s, p) ==
    LET e == Find(s, p + 1, "]")
        f == Find(s, e + 2, ")")
    IN  IF /\ p <= Len(s) /\ s[p] = "["
           /\ e > p + 1
           /\ e + 1 <= Len(s) /\ s[e + 1] = "("
           /\ f > e + 2
        THEN [ok |-> TRUE, name |-> Slice(s, p + 1, e - 1), url |-> Slice(s, e + 2, f - 1),
              next |-> f + 1]
        ELSE [ok |-> FALSE, name |-> <<>>, url |-> <<>>, next |-> 0]

\* \s*[-:]?\s*(.*)$ at position p of s: the third group
match_tail(s, p) ==
    LET p2 == SkipWhile(s, p, Whitespace)
        p3 == IF p2 <= Len(s) /\ s[p2] \in {"-", ":"} THEN p2 + 1 ELSE p2
    IN  From(s, SkipWhile(s, p3, Whitespace))

\* ^[\s]*[-\*]\s* : the position after the bullet and its blanks (0 if no bullet)
match_bullet(s) ==
    LET p0 == SkipWhile(s, 1, Whitespace)
    IN  IF p0 <= Len(s) /\ s[p0] \in {"-", "*"} THEN SkipWhile(s, p0 + 1, Whitespace) ELSE 0

\* the list "patterns", in its order
patterns == <<"basic", "bold_link", "bold_description", "numbered">>

re_match(pattern, s) ==
    LET \* ^[\s]*[-\*]\s*\[([^\]]+)\]\(([^)]+)\)\s*[-:]?\s*(.*)$
        pattern_basic ==
            LET p1 == match_bullet(s)
                l  == match_link(s, p1)
            IN  IF p1 > 0 /\ l.ok
                THEN Match(l.name, l.url, match_tail(s, l.next), From(s, l.next))
                ELSE NoMatch
        \* ^[\s]*[-\*]\s*\*\*\[([^\]]+)\]\(([^)]+)\)\*\*\s*[-:]?\s*(.*)$
        pattern_bold_link ==
            LET p1 == match_bullet(s)
                l  == match_link(s, p1 + 2)
            IN  IF /\ p1 > 0
                   /\ Slice(s, p1, p1 + 1) = <<"*", "*">>
                   /\ l.ok
                   /\ Slice(s, l.next, l.next + 1) = <<"*", "*">>
                THEN Match(l.name, l.url, match_tail(s, l.next + 2), From(s, l.next + 2))
                ELSE NoMatch
        \* ^[\s]*[-\*]\s*\[([^\]]+)\]\(([^)]+)\)\s*\*\*([^*]+)\*\*.*$
        pattern_bold_description ==
            LET p1 == match_bullet(s)
                l  == match_link(s, p1)
                p2 == SkipWhile(s, l.next, Whitespace)
                e  == Find(s, p2 + 2, "*")
            IN  IF /\ p1 > 0
                   /\ l.ok
                   /\ Slice(s, p2, p2 + 1) = <<"*", "*">>
                   /\ e > p2 + 2
                   /\ Slice(s, e, e + 1) = <<"*", "*">>
                THEN Match(l.name, l.url, Slice(s, p2 + 2, e - 1), From(s, l.next))
                ELSE NoMatch
        \* ^[\s]*\d+\.\s*\[([^\]]+)\]\(([^)]+)\)\s*[-:]?\s*(.*)$
        pattern_numbered ==
            LET p0 == SkipWhile(s, 1, Whitespace)
                d  == SkipWhile(s, p0, Digits)
                l  == match_link(s, SkipWhile(s, d + 1, Whitespace))
            IN  IF /\ d > p0
                   /\ d <= Len(s) /\ s[d] = "."
                   /\ l.ok
                THEN Match(l.name, l.url, match_tail(s, l.next), From(s, l.next))
                ELSE NoMatch
    IN  CASE pattern = "basic"            -> pattern_basic
          [] pattern = "bold_link"        -> pattern_bold_link
          [] pattern = "bold_description" -> pattern_bold_description
          [] pattern = "numbered"         -> pattern_numbered

skip_patterns == {
    <<"t", "a", "b", "l", "e", " ", "o", "f", " ", "c", "o", "n", "t", "e", "n", "t", "s">>,
    <<"c", "o", "n", "t", "r", "i", "b", "u", "t", "i", "n", "g">>,
    <<"l", "i", "c", "e", "n", "s", "e">>,
    <<"r", "e", "a", "d", "m", "e">>,
    <<"b", "a", "c", "k", " ", "t", "o", " ", "t", "o", "p">>,
    <<"g", "o", " ", "t", "o">>,
    <<"s", "e", "e", " ", "a", "l", "s", "o">>,
    <<"m", "o", "r", "e", " ", "i", "n", "f", "o">>,
    <<"d", "o", "c", "u", "m", "e", "n", "t", "a", "t", "i", "o", "n">>,
    <<"w", "i", "k", "i">>,
    <<"w", "e", "b", "s", "i", "t", "e">>,
    <<"h", "o", "m", "e", "p", "a", "g", "e">>}

\* the description of a match: markdown marks removed, then .strip(' .-:')
clean_description(text) ==
    LET \* re.sub(r'[chars]', '', s)
        remove_chars(s, chars) == SelectSeq(s, LAMBDA c : c \notin chars)
        \* the grave accent, which a string of this language cannot hold
        Backtick == "grave"
    IN  strip_chars(remove_chars(strip(text), {"*", "_", Backtick}), {" ", ".", "-", ":"})

\* "any(skip in name.lower() or skip in description.lower() for skip in skip_patterns)"
is_skipped(name, description) ==
    \E skip \in skip_patterns : In(skip, lower(name)) \/ In(skip, lower(description))

\* matches_query on the name only
matches_query_name(query_lower, name, description, current_category) ==
    In(query_lower, lower(name))

\* the query filter of line 666
matches_query(query_lower, name, description, current_category) ==
    \/ In(query_lower, lower(name))
    \/ In(query_lower, lower(description))
    \/ In(query_lower, lower(current_category))

\* the description of the record (lines 668-676)
final_description(description, current_category) ==
    LET enhanced ==
            IF current_category # <<>> /\ ~In(lower(current_category), lower(description))
            THEN IF description # <<>>
                 THEN description \o <<" ", "(", "C", "a", "t", "e", "g", "o", "r", "y", ":", " ">> \o current_category \o <<")">>
                 ELSE <<"F", "r", "o", "m", " ">> \o current_category \o <<" ", "c", "a", "t", "e", "g", "o", "r", "y">>
            ELSE description
    IN  IF enhanced = <<>> /\ current_category # <<>>
        THEN <<"T", "o", "o", "l", " ", "f", "r", "o", "m", " ">> \o current_category \o <<" ", "c", "a", "t", "e", "g", "o", "r", "y">>
        ELSE IF enhanced = <<>> THEN <<"T", "o", "o", "l", " ", "f", "r", "o", "m", " ", "a", "w", "e", "s", "o", "m", "e", " ", "l", "i", "s", "t">>
        ELSE enhanced

\* "for pattern in patterns" on one line, from pattern k on: the results after the line
RECURSIVE try_patterns(_, _, _, _, _, _)
try_patterns(line, k, current_category, query_lower, source_name, res) ==
    IF k > Len(patterns) THEN res
    ELSE
    LET match == re_match(patterns[k], line)
        github_com == <<"g", "i", "t", "h", "u", "b", ".", "c", "o", "m">>
        \* where "continue" inside "for pattern in patterns" goes: to the next pattern
        next_pattern(m) == m + 1
    IN  IF ~match.ok
        THEN try_patterns(line, k + 1, current_category, query_lower, source_name, res)
        ELSE
        LET name        == strip(match.name)
            url         == strip(match.url)
            description == clean_description(match.text)
        IN  IF name = <<>> \/ Len(name) < 2
            THEN try_patterns(line, next_pattern(k), current_category, query_lower, source_name, res)
            ELSE IF is_skipped(name, description)
            THEN try_patterns(line, next_pattern(k), current_category, query_lower, source_name, res)
            ELSE IF matches_query(query_lower, name, description, current_category)
            THEN Append(res,
                        [SearchResult(name, final_description(description, current_category), url,
                                      IF In(github_com, url) THEN url ELSE <<>>, source_name)
                         EXCEPT !.category = current_category])
            ELSE res

\* the heading line kept as it is
heading_text_raw(line) == line

\* re.sub(r'^#+\s*', '', line).strip()
heading_text(line) == strip(From(line, SkipWhile(line, SkipWhile(line, 1, {"#"}), Whitespace)))

\* "for line in lines", from line k on
RECURSIVE parse_lines(_, _, _, _, _, _)
parse_lines(lines, k, current_category, query_lower, source_name, res) ==
    IF k > Len(lines) THEN res
    ELSE
    LET line == strip(lines[k])
    IN  IF startswith(line, <<"#">>)
        THEN parse_lines(lines, k + 1, heading_text(line), query_lower, source_name, res)
        ELSE parse_lines(lines, k + 1, current_category, query_lower, source_name,
                         try_patterns(line, 1, current_category, query_lower, source_name, res))

_parse_awesome_list_content(content, source_config, q) ==
    parse_lines(split(content, "\n"), 1, <<>>, lower(q), Get(source_config, "name", "GitHub"), <<>>)

-----------------------------------------------------------------------------
(* BaseSearchClient._parse_api_response and _parse_text_response: the two  *)
(* parsers of the api strategy.  A decoded JSON value carries its type     *)
(* (t) and its content (v); the fields of an item are strings.             *)

JDict(fields) == [t |-> "dict", v |-> fields]

JList(elements) == [t |-> "list", v |-> elements]

JStr(s) == [t |-> "str", v |-> s]

\* "for item in items", from item k on
RECURSIVE api_results(_, _, _)
api_results(items, k, source_name) ==
    LET \* the SearchResult built from one item
        api_result(item) ==
            SearchResult(Get(item, "name", Get(item, "title", <<>>)),
                         Get(item, "description", Get(item, "desc", <<>>)),
                         Get(item, "url", Get(item, "link", <<>>)),
                         Get(item, "github_url", Get(item, "repository_url", <<>>)),
                         source_name)
    IN  IF k > Len(items) THEN <<>>
        ELSE IF items[k].t = "dict"
             THEN <<api_result(items[k].v)>> \o api_results(items, k + 1, source_name)
             ELSE api_results(items, k + 1, source_name)

_parse_api_response(data, source_config) ==
    LET \* the "items" of lines 720-732 (data is a dict or a list)
        items ==
            IF data.t = "dict"
            THEN IF "results" \in DOMAIN data.v THEN data.v["results"].v
                 ELSE IF "data" \in DOMAIN data.v THEN data.v["data"].v
                 ELSE IF "items" \in DOMAIN data.v THEN data.v["items"].v
                 ELSE <<data>>
            ELSE data.v
    IN  IF data.t \notin {"dict", "list"} THEN <<>>
        ELSE api_results(items, 1, Get(source_config, "name", "Unknown"))

\* the number of lines _parse_text_response reads
text_line_limit == 10

\* the length a name is cut to
text_name_limit == 100

\* "for line in lines[:10]", from line k on
RECURSIVE text_results(_, _, _)
text_results(lines, k, source_name) ==
    IF k > Len(lines) THEN <<>>
    ELSE IF strip(lines[k]) # <<>>
         THEN <<SearchResult(Prefix(strip(lines[k]), text_name_limit), "Content from " \o source_name,
                             <<>>, <<>>, source_name)>>
              \o text_results(lines, k + 1, source_name)
         ELSE text_results(lines, k + 1, source_name)

\* _parse_text_response without the limit on the lines read
_parse_text_response_all_lines(text, source_config) ==
    text_results(split(text, "\n"), 1, Get(source_config, "name", "Unknown"))

_parse_text_response(text, source_config) ==
    text_results(Prefix(split(text, "\n"), text_line_limit), 1, Get(source_config, "name", "Unknown"))

\* one record for each hit of the response
_parse_github_response_per_hit(data, source_config, repo) ==
    [k \in 1..Len(Get(data.v, "items", JList(<<>>)).v) |->
        SearchResult(repo, <<>>, <<"h", "t", "t", "p", "s", ":", "/", "/", "g", "i", "t", "h", "u", "b", ".", "c", "o", "m", "/">> \o repo, <<"h", "t", "t", "p", "s", ":", "/", "/", "g", "i", "t", "h", "u", "b", ".", "c", "o", "m", "/">> \o repo, Get(source_config, "name", "Unknown"))]

\* BaseSearchClient._parse_github_response: one record, for the repository
_parse_github_response(data, source_config, repo) ==
    LET segments == split(repo, "/")
    IN  <<SearchResult(segments[Len(segments)],
                       Get(source_config, "description", <<>>),
                       <<"h", "t", "t", "p", "s", ":", "/", "/", "g", "i", "t", "h", "u", "b", ".", "c", "o", "m", "/">> \o repo,
                       <<"h", "t", "t", "p", "s", ":", "/", "/", "g", "i", "t", "h", "u", "b", ".", "c", "o", "m", "/">> \o repo,
                       Get(source_config, "name", "Unknown"))>>

-----------------------------------------------------------------------------
(* The generic HTML pipeline: _parse_generic_results and what it calls.    *)
(* An element of the parsed page carries what the pipeline asks of it: its *)
(* tag and classes, its href, its text (get_text(strip=True)), the texts   *)
(* of the elements its name and description candidates find, in the order *)
(* of the candidate lists, and the anchors with an href below it.          *)

Element(tg, cls, href, text, name_texts, desc_texts, links) ==
    [tag |-> tg, classes |-> cls, href |-> href, text |-> text,
     name_texts |-> name_texts, desc_texts |-> desc_texts, links |-> links]

Anchor(href, text) == Element("a", {}, href, text, <<>>, <<>>, <<>>)

\* urllib.parse.urljoin for a base that is empty or a site root
\* ("https://host" or "https://host/")
urljoin(base, url) ==
    LET root == strip_chars(base, {"/"})
        Letters == {UpperCase[k] : k \in DOMAIN UpperCase} \cup {LowerCase[k] : k \in DOMAIN LowerCase}
        \* does the reference carry a scheme of its own
        has_scheme(u) ==
            LET c == Find(u, 1, ":")
            IN  /\ c > 1
                /\ \A k \in 1..(c - 1) : u[k] \in Letters \cup Digits \cup {"+", "-", "."}
    IN  IF base = <<>> THEN url
        ELSE IF url = <<>> THEN base
        ELSE IF has_scheme(url) THEN url
        ELSE IF startswith(url, <<"/", "/">>) THEN Slice(base, 1, Find(base, 1, ":")) \o url
        ELSE IF startswith(url, <<"/">>) THEN root \o url
        ELSE IF url[1] \in {"?", "#"} THEN base \o url
        ELSE root \o <<"/">> \o url

result_selectors ==
    <<[class |-> "server-card"], [class |-> "result-item"], [class |-> "search-result"],
      [class |-> "mcp-server"], [class |-> "server-listing"], [class |-> "server-item"],
      [class |-> "card"], [class |-> "result"], [class |-> "entry"], [tag |-> "article"],
      [class |-> "project"], [class |-> "repository"], [class |-> "tool"]>>

\* soup.find_all('a', href=True)
RECURSIVE find_all_links(_)
find_all_links(nodes) ==
    LET \* the anchors of one element, in document order
        anchors_of(e) == (IF e.tag = "a" /\ e.href # <<>> THEN <<e>> ELSE <<>>) \o e.links
    IN  IF nodes = <<>> THEN <<>>
        ELSE anchors_of(Head(nodes)) \o find_all_links(Tail(nodes))

_looks_like_result_link(link, search_url) ==
    LET link_skip_patterns ==
            {
            <<"n", "e", "x", "t">>,
            <<"p", "r", "e", "v">>,
            <<"p", "a", "g", "e">>,
            <<"h", "o", "m", "e">>,
            <<"a", "b", "o", "u", "t">>,
            <<"c", "o", "n", "t", "a", "c", "t">>,
            <<"l", "o", "g", "i", "n">>,
            <<"r", "e", "g", "i", "s", "t", "e", "r">>}
        result_patterns ==
            {
            <<"/", "s", "e", "r", "v", "e", "r">>,
            <<"/", "t", "o", "o", "l">>,
            <<"/", "a", "g", "e", "n", "t">>,
            <<"/", "m", "c", "p">>,
            <<"/", "p", "r", "o", "j", "e", "c", "t">>,
            <<"/", "r", "e", "p", "o">>}
    IN  IF \E pattern \in link_skip_patterns :
               In(pattern, lower(link.href)) \/ In(pattern, lower(link.text))
        THEN FALSE
        ELSE (\E pattern \in result_patterns : In(pattern, lower(link.href))) /\ Len(link.text) > 3

garbage_patterns == {
    <<"/", "n", "e", "w">>,
    <<"/", "c", "r", "e", "a", "t", "e">>,
    <<"/", "a", "d", "d">>,
    <<"/", "s", "e", "a", "r", "c", "h">>,
    <<"/", "f", "i", "l", "t", "e", "r">>,
    <<"/", "l", "o", "g", "i", "n">>,
    <<"/", "r", "e", "g", "i", "s", "t", "e", "r">>,
    <<"/", "a", "b", "o", "u", "t">>,
    <<"/", "c", "o", "n", "t", "a", "c", "t">>,
    <<"/", "h", "e", "l", "p">>,
    <<"/", "f", "a", "q">>,
    <<"/", "t", "e", "r", "m", "s">>,
    <<"/", "p", "r", "i", "v", "a", "c", "y">>,
    <<"j", "a", "v", "a", "s", "c", "r", "i", "p", "t", ":">>,
    <<"m", "a", "i", "l", "t", "o", ":">>,
    <<"#">>,
    <<"?", "p", "a", "g", "e", "=">>,
    <<"?", "s", "o", "r", "t", "=">>,
    <<"?", "f", "i", "l", "t", "e", "r", "=">>}

generic_names == {
    <<"n", "e", "w">>,
    <<"c", "r", "e", "a", "t", "e">>,
    <<"a", "d", "d">>,
    <<"s", "e", "a", "r", "c", "h">>,
    <<"f", "i", "l", "t", "e", "r">>,
    <<"v", "i", "e", "w">>,
    <<"d", "e", "t", "a", "i", "l", "s">>,
    <<"m", "o", "r", "e">>,
    <<"h", "o", "m", "e">>,
    <<"a", "b", "o", "u", "t">>,
    <<"c", "o", "n", "t", "a", "c", "t">>,
    <<"h", "e", "l", "p">>,
    <<"l", "o", "g", "i", "n">>,
    <<"r", "e", "g", "i", "s", "t", "e", "r">>,
    <<"s", "i", "g", "n", " ", "u", "p">>}

\* _is_valid_result without the test of the URL
_is_valid_result_any_url(result, search_url) ==
    ~(\/ result.name = <<>>
      \/ strip(lower(result.name)) \in generic_names
      \/ Len(strip(result.name)) < 3)

\* _is_valid_result without the rule for cursor.directory
_is_valid_result_any_site(result, search_url) ==
    /\ ~\E pattern \in garbage_patterns : In(pattern, lower(result.url))
    /\ ~(\/ result.name = <<>>
          \/ strip(lower(result.name)) \in generic_names
          \/ Len(strip(result.name)) < 3)

_is_valid_result(result, search_url) ==
    LET cursor_directory == <<"c", "u", "r", "s", "o", "r", ".", "d", "i", "r", "e", "c", "t", "o", "r", "y">>
        cursor_patterns ==
            {
            <<"/", "m", "c", "p", "/", "n", "e", "w">>,
            <<"/", "n", "e", "w">>,
            <<"/", "c", "r", "e", "a", "t", "e">>}
        \* str.count for one character
        count_char(s, c) == Cardinality({k \in DOMAIN s : s[k] = c})
    IN
    IF \E pattern \in garbage_patterns : In(pattern, lower(result.url)) THEN FALSE
    ELSE IF \/ result.name = <<>>
            \/ strip(lower(result.name)) \in generic_names
            \/ Len(strip(result.name)) < 3
         THEN FALSE
    ELSE IF In(cursor_directory, search_url)
         THEN IF \E pattern \in cursor_patterns : In(pattern, result.url) THEN FALSE
              ELSE In(<<"/", "m", "c", "p", "/">>, result.url) /\ count_char(result.url, "/") > 4
    ELSE TRUE

\* the first candidate text that is long enough, else "" (lines 1163-1168)
RECURSIVE first_name(_)
first_name(texts) ==
    IF texts = <<>> THEN <<>>
    ELSE IF Head(texts) # <<>> /\ Len(Head(texts)) > 2 THEN Head(texts)
    ELSE first_name(Tail(texts))

\* the first candidate text that reads like a description (lines 1186-1195)
RECURSIVE first_description(_, _)
first_description(texts, name) ==
    LET no_description == <<"N", "o", " ", "d", "e", "s", "c", "r", "i", "p", "t", "i", "o", "n", " ", "a", "v", "a", "i", "l", "a", "b", "l", "e">>
        description_rejects ==
            {
            <<"v", "i", "e", "w", " ", "d", "e", "t", "a", "i", "l", "s">>,
            <<"l", "e", "a", "r", "n", " ", "m", "o", "r", "e">>,
            <<"r", "e", "a", "d", " ", "m", "o", "r", "e">>,
            <<"d", "e", "t", "a", "i", "l", "s">>,
            <<"m", "o", "r", "e">>,
            <<"c", "l", "i", "c", "k", " ", "h", "e", "r", "e">>}
    IN
    IF texts = <<>> THEN no_description
    ELSE LET desc_text == Head(texts)
         IN  IF /\ desc_text # <<>> /\ Len(desc_text) > 15
                /\ desc_text # name
                /\ lower(desc_text) \notin description_rejects
                /\ ~startswith(desc_text, <<"h", "t", "t", "p">>)
                /\ ~startswith(desc_text, <<"w", "w", "w", ".">>)
             THEN Prefix(desc_text, 200)
             ELSE first_description(Tail(texts), name)

\* "for link in links": item-like hrefs go to the front, the others to the end
RECURSIVE add_url_candidates(_, _)
add_url_candidates(url_candidates, links) ==
    IF links = <<>> THEN url_candidates
    ELSE LET href == Head(links).href
             item_link_patterns ==
                 {
                 <<"/", "s", "e", "r", "v", "e", "r">>,
                 <<"/", "t", "o", "o", "l">>,
                 <<"/", "m", "c", "p">>,
                 <<"/", "p", "r", "o", "j", "e", "c", "t">>,
                 <<"/", "r", "e", "p", "o">>}
         IN  add_url_candidates(
                 IF \E pattern \in item_link_patterns : In(pattern, href)
                 THEN <<href>> \o url_candidates
                 ELSE Append(url_candidates, href),
                 Tail(links))

\* "for href in url_candidates": the first href that is not empty, made absolute
RECURSIVE first_url(_, _)
first_url(url_candidates, base_url) ==
    IF url_candidates = <<>> THEN <<>>
    ELSE LET href == Head(url_candidates)
         IN  IF href # <<>>
             THEN IF ~startswith(href, <<"h", "t", "t", "p">>) THEN urljoin(base_url, href) ELSE href
             ELSE first_url(Tail(url_candidates), base_url)

\* the result is None (some = FALSE) or a SearchResult
_extract_result_from_element_enhanced(element, source_config, base_url, search_url) ==
    LET found == first_name(element.name_texts)
        name  == IF found = <<>> /\ element.tag = "a" THEN element.text ELSE found
        description == first_description(element.desc_texts, name)
        url   == first_url(add_url_candidates(IF element.tag = "a" THEN <<element.href>> ELSE <<>>,
                                              element.links),
                           base_url)
    IN  IF name # <<>> /\ url # <<>>
        THEN Some(SearchResult(name, description, url, <<>>, Get(source_config, "name", "Unknown")))
        ELSE None

\* the first selector that finds more than one element gives the elements
RECURSIVE select_results(_, _)
select_results(nodes, k) ==
    IF k > Len(result_selectors) THEN <<>>
    ELSE LET \* soup.select(selector) over the elements of the page
             select(selector) ==
                 SelectSeq(nodes, LAMBDA e : IF "tag" \in DOMAIN selector
                                             THEN e.tag = selector.tag
                                             ELSE selector.class \in e.classes)
             elements == select(result_selectors[k])
         IN  IF Len(elements) > 1 THEN elements ELSE select_results(nodes, k + 1)

\* the elements the page gives (lines 1092-1103)
result_elements(nodes, search_url) ==
    LET selected == select_results(nodes, 1)
    IN  IF selected # <<>> THEN selected
        ELSE SelectSeq(find_all_links(nodes), LAMBDA link : _looks_like_result_link(link, search_url))

\* the number of elements one call extracts from
result_limit == 50

\* limit_elements without the limit
limit_elements_all(elements) == elements

\* result_elements[:50]
limit_elements(elements) == Prefix(elements, result_limit)

\* "for element in result_elements[:50]"
RECURSIVE extract_results(_, _, _, _)
extract_results(elements, source_name, base_url, search_url) ==
    IF elements = <<>> THEN <<>>
    ELSE LET result == _extract_result_from_element_enhanced(
                           Head(elements), [name |-> source_name, url |-> base_url], base_url, search_url)
             rest   == extract_results(Tail(elements), source_name, base_url, search_url)
         IN  IF result.some /\ strip(result.val.name) # <<>> /\ _is_valid_result(result.val, search_url)
             THEN <<result.val>> \o rest
             ELSE rest

_parse_generic_results(nodes, source_name, base_url, search_url) ==
    extract_results(limit_elements(result_elements(nodes, search_url)), source_name, base_url, search_url)

-----------------------------------------------------------------------------
(* The parsers applied to the contents a request returns: README contents,
   response bodies of the api strategy and parsed pages *)

\* the sequences over S of length at most n
RECURSIVE SeqsUpTo(_, _)
SeqsUpTo(S, n) ==
    IF n = 0 THEN {<<>>}
    ELSE LET shorter == SeqsUpTo(S, n - 1)
         IN  shorter \cup {Append(s, x) : s \in shorter, x \in S}

\* README contents of at most MaxLines lines, with the queries
MarkdownInputs ==
    LET
        MarkdownLines ==
            {
            <<"#", " ", "S", "e", "r", "v", "e", "r", "s">>,
            <<"#", "#", " ", "T", "o", "o", "l", "s">>,
            <<"-", " ", "[", "F", "o", "o", "]", "(", "h", "t", "t", "p", ":", "/", "/", "a", ")", " ", "-", " ", "b", "a", "r", " ", "t", "h", "i", "n", "g">>,
            <<"-", " ", "[", "T", "a", "b", "l", "e", " ", "o", "f", " ", "C", "o", "n", "t", "e", "n", "t", "s", "]", "(", "h", "t", "t", "p", ":", "/", "/", "b", ")">>,
            <<"*", " ", "[", "B", "a", "z", "]", "(", "h", "t", "t", "p", "s", ":", "/", "/", "g", "i", "t", "h", "u", "b", ".", "c", "o", "m", "/", "o", "/", "b", ")", ":", " ", "W", "i", "k", "i", " ", "t", "o", "o", "l">>,
            <<"-", " ", "[", "Q", "u", "x", "]", "(", "h", "t", "t", "p", ":", "/", "/", "c", ")", " ", "*", "*", "f", "a", "s", "t", "*", "*", " ", "s", "e", "e", " ", "w", "i", "k", "i">>,
            <<"1", ".", " ", "[", "O", "n", "e", "]", "(", "h", "t", "t", "p", ":", "/", "/", "d", ")">>,
            <<"-", " ", "*", "*", "[", "B", "o", "l", "d", "]", "(", "h", "t", "t", "p", ":", "/", "/", "e", ")", "*", "*", " ", "-", " ", "_", "S", "e", "r", "v", "e", "r", "_", " ", "k", "i", "t", ".">>,
            <<"-", " ", "[", "X", "]", "(", "h", "t", "t", "p", ":", "/", "/", "f", ")", " ", "-", " ", "t", "i", "n", "y">>}
        MarkdownQueries ==
            {
            <<>>,
            <<"f", "o", "o">>,
            <<"b", "a", "r">>,
            <<"s", "e", "r", "v">>,
            <<"Q", "u", "x">>}
        MarkdownContents == {join(ls, <<"\n">>) : ls \in SeqsUpTo(MarkdownLines, MaxLines)}
    IN  [kind : {"markdown"}, content : MarkdownContents, query : MarkdownQueries]

\* the JSON bodies (a list of at most MaxItems items, a dict that holds the
\* list, a single item, a string) and the bodies that are not JSON
ApiInputs ==
    LET
        ApiItems ==
            {
            JDict([name |-> <<"F", "o", "o">>, url |-> <<"h", "t", "t", "p", ":", "/", "/", "a">>]),
            JDict([title |-> <<"B", "a", "z">>, desc |-> <<"q", "u", "x", " ", "t", "o", "o", "l">>, link |-> <<"h", "t", "t", "p", ":", "/", "/", "b">>, repository_url |-> <<"h", "t", "t", "p", "s", ":", "/", "/", "g", "i", "t", "h", "u", "b", ".", "c", "o", "m", "/", "o", "/", "b">>]),
            JDict([url |-> <<"h", "t", "t", "p", ":", "/", "/", "c">>]),
            JDict([name |-> <<"B", "a", "r", "e">>, description |-> <<"n", "o", " ", "l", "i", "n", "k">>]),
            JDict([k \in {} |-> <<>>]),
            JStr(<<"F", "o", "o">>)}
        ApiLists == {JList(xs) : xs \in SeqsUpTo(ApiItems, MaxItems)}
        ApiBodies ==
            ApiLists
            \cup {JDict([results |-> l]) : l \in ApiLists}
            \cup {JDict([data |-> l]) : l \in ApiLists}
            \cup {JDict([items |-> l]) : l \in ApiLists}
            \cup ApiItems
        TextLines == {<<>>, <<"h", "e", "l", "l", "o">>, <<" ", " ", "x", " ">>}
        \* bodies of about text_line_limit lines, some of them blank
        LongBodies ==
            {[k \in 1..n |-> IF k \in blanks THEN <<" ">> ELSE <<LowerCase[k]>>] :
                n \in (text_line_limit - 1)..(text_line_limit + MaxExtra),
                blanks \in {{}, {2}, {2, 5}, {text_line_limit + 1}}}
        TextBodies ==
            {join(ls, <<"\n">>) : ls \in SeqsUpTo(TextLines, MaxItems) \cup LongBodies}
    IN  [kind : {"json"}, body : ApiBodies] \cup [kind : {"text"}, body : TextBodies]

\* pages of at most MaxNodes elements (cards with a heading, a paragraph and
\* a link, and bare anchors), and pages of about result_limit equal elements
HtmlInputs ==
    LET
        HtmlElements ==
            {
            Element("div", {"card"}, <<>>, <<"C", "o", "o", "l", " ", "S", "e", "r", "v", "e", "r", "A", " ", "s", "e", "r", "v", "e", "r", " ", "t", "h", "a", "t", " ", "d", "o", "e", "s", " ", "m", "a", "n", "y", " ", "u", "s", "e", "f", "u", "l", " ", "t", "h", "i", "n", "g", "s">>,
                <<<<"C", "o", "o", "l", " ", "S", "e", "r", "v", "e", "r">>>>, <<<<"A", " ", "s", "e", "r", "v", "e", "r", " ", "t", "h", "a", "t", " ", "d", "o", "e", "s", " ", "m", "a", "n", "y", " ", "u", "s", "e", "f", "u", "l", " ", "t", "h", "i", "n", "g", "s">>>>, <<Anchor(<<"/", "s", "e", "r", "v", "e", "r", "/", "c", "o", "o", "l">>, <<"O", "p", "e", "n">>)>>),
            Element("div", {"card"}, <<>>, <<"S", "i", "g", "n", " ", "i", "n", " ", "b", "o", "x", "U", "s", "e", " ", "y", "o", "u", "r", " ", "a", "c", "c", "o", "u", "n", "t", " ", "t", "o", " ", "s", "i", "g", "n", " ", "i", "n", " ", "h", "e", "r", "e">>,
                <<<<"S", "i", "g", "n", " ", "i", "n", " ", "b", "o", "x">>>>, <<<<"U", "s", "e", " ", "y", "o", "u", "r", " ", "a", "c", "c", "o", "u", "n", "t", " ", "t", "o", " ", "s", "i", "g", "n", " ", "i", "n", " ", "h", "e", "r", "e">>>>, <<Anchor(<<"/", "l", "o", "g", "i", "n">>, <<"L", "o", "g", "i", "n">>)>>),
            Element("div", {"card"}, <<>>, <<"N", "e", "w", " ", "t", "h", "i", "n", "g", "A", "d", "d", " ", "a", " ", "n", "e", "w", " ", "s", "e", "r", "v", "e", "r", " ", "t", "o", " ", "t", "h", "e", " ", "l", "i", "s", "t">>,
                <<<<"N", "e", "w", " ", "t", "h", "i", "n", "g">>>>, <<<<"A", "d", "d", " ", "a", " ", "n", "e", "w", " ", "s", "e", "r", "v", "e", "r", " ", "t", "o", " ", "t", "h", "e", " ", "l", "i", "s", "t">>>>, <<Anchor(<<"/", "n", "e", "w">>, <<"S", "u", "b", "m", "i", "t">>)>>),
            Element("div", {"card"}, <<>>, <<"F", "i", "n", "d", " ", "m", "o", "r", "e", "L", "o", "o", "k", " ", "f", "o", "r", " ", "o", "t", "h", "e", "r", " ", "s", "e", "r", "v", "e", "r", "s", " ", "a", "n", "d", " ", "t", "o", "o", "l", "s">>,
                <<<<"F", "i", "n", "d", " ", "m", "o", "r", "e">>>>, <<<<"L", "o", "o", "k", " ", "f", "o", "r", " ", "o", "t", "h", "e", "r", " ", "s", "e", "r", "v", "e", "r", "s", " ", "a", "n", "d", " ", "t", "o", "o", "l", "s">>>>, <<Anchor(<<"/", "s", "e", "a", "r", "c", "h", "?", "q", "=", "x">>, <<"F", "i", "n", "d">>)>>),
            Anchor(<<"/", "l", "o", "g", "i", "n">>, <<"L", "o", "g", "i", "n">>),
            Anchor(<<"/", "n", "e", "w">>, <<"A", "d", "d", " ", "N", "e", "w", " ", "S", "e", "r", "v", "e", "r">>),
            Anchor(<<"/", "s", "e", "a", "r", "c", "h", "?", "q", "=", "x">>, <<"S", "e", "a", "r", "c", "h", " ", "s", "e", "r", "v", "e", "r", "s">>),
            Anchor(<<"/", "m", "c", "p", "/", "w", "e", "a", "t", "h", "e", "r">>, <<"W", "e", "a", "t", "h", "e", "r", " ", "M", "C", "P">>),
            Anchor(<<"h", "t", "t", "p", "s", ":", "/", "/", "g", "i", "t", "h", "u", "b", ".", "c", "o", "m", "/", "o", "/", "r", "e", "p", "o">>, <<"R", "e", "p", "o", " ", "t", "o", "o", "l">>),
            Element("div", {"card"}, <<>>, <<"M", "u", "l", "t", "i", " ", "S", "e", "r", "v", "e", "r", "A", " ", "s", "e", "r", "v", "e", "r", " ", "w", "i", "t", "h", " ", "m", "a", "n", "y", " ", "l", "i", "n", "k", "s", " ", "t", "o", " ", "f", "o", "l", "l", "o", "w">>,
                <<<<"M", "u", "l", "t", "i", " ", "S", "e", "r", "v", "e", "r">>>>, <<<<"A", " ", "s", "e", "r", "v", "e", "r", " ", "w", "i", "t", "h", " ", "m", "a", "n", "y", " ", "l", "i", "n", "k", "s", " ", "t", "o", " ", "f", "o", "l", "l", "o", "w">>>>, <<Anchor(<<"/", "d", "o", "c", "s", "/", "i", "n", "t", "r", "o">>, <<"D", "o", "c", "s">>), Anchor(<<"/", "s", "e", "r", "v", "e", "r", "/", "o", "n", "e">>, <<"O", "n", "e">>), Anchor(<<"/", "t", "o", "o", "l", "/", "t", "w", "o">>, <<"T", "w", "o">>)>>),
            Element("div", {"card"}, <<>>, <<"P", "l", "a", "i", "n", " ", "E", "n", "t", "r", "y", "A", "n", " ", "e", "n", "t", "r", "y", " ", "w", "h", "o", "s", "e", " ", "l", "i", "n", "k", "s", " ", "a", "r", "e", " ", "a", "l", "l", " ", "p", "l", "a", "i", "n">>,
                <<<<"P", "l", "a", "i", "n", " ", "E", "n", "t", "r", "y">>>>, <<<<"A", "n", " ", "e", "n", "t", "r", "y", " ", "w", "h", "o", "s", "e", " ", "l", "i", "n", "k", "s", " ", "a", "r", "e", " ", "a", "l", "l", " ", "p", "l", "a", "i", "n">>>>, <<Anchor(<<"/", "d", "o", "c", "s", "/", "a">>, <<"F", "i", "r", "s", "t">>), Anchor(<<"/", "d", "o", "c", "s", "/", "b">>, <<"S", "e", "c", "o", "n", "d">>)>>),
            Anchor(<<"/", "m", "c", "p", "/", "t", "o", "o", "l", "s", "/", "w", "e", "a", "t", "h", "e", "r">>, <<"W", "e", "a", "t", "h", "e", "r", " ", "t", "o", "o", "l", "s">>),
            Element("div", {"card"}, <<>>, <<"M", "o", "r", "e", "S", "e", "e", " ", "t", "h", "e", " ", "o", "t", "h", "e", "r", " ", "s", "e", "r", "v", "e", "r", "s", " ", "o", "f", " ", "t", "h", "e", " ", "l", "i", "s", "t">>,
                <<<<"M", "o", "r", "e">>>>, <<<<"S", "e", "e", " ", "t", "h", "e", " ", "o", "t", "h", "e", "r", " ", "s", "e", "r", "v", "e", "r", "s", " ", "o", "f", " ", "t", "h", "e", " ", "l", "i", "s", "t">>>>, <<Anchor(<<"/", "s", "e", "r", "v", "e", "r", "/", "m", "o", "r", "e">>, <<"M", "o", "r", "e">>)>>)}
        HtmlPages ==
            SeqsUpTo(HtmlElements, MaxNodes)
            \cup {[k \in 1..(result_limit + d) |-> e] : e \in HtmlElements, d \in 0..MaxExtra}
        SearchUrls ==
            {<<"h", "t", "t", "p", "s", ":", "/", "/", "x", ".", "i", "o", "/", "s", "e", "a", "r", "c", "h", "?", "q", "=", "q">>, <<"h", "t", "t", "p", "s", ":", "/", "/", "c", "u", "r", "s", "o", "r", ".", "d", "i", "r", "e", "c", "t", "o", "r", "y", "/", "m", "c", "p", "?", "q", "=", "q">>}
        BaseUrls == {<<"h", "t", "t", "p", "s", ":", "/", "/", "x", ".", "i", "o">>}
    IN  [kind : {"html"}, nodes : HtmlPages, search_url : SearchUrls, base_url : BaseUrls]

\* sources of the github_api strategy with their queries and the ways the
\* code-search request ends: a response with at most MaxItems hits, a
\* response that is not JSON, a request that fails
GithubInputs ==
    LET Repos == {<<>>, <<"o", "/", "r">>, <<"m", "o", "d", "e", "l", "c", "o", "n", "t", "e", "x", "t", "p", "r", "o", "t", "o", "c", "o", "l", "/", "s", "e", "r", "v", "e", "r", "s">>}
        Responses ==
            [status : {"ok"}, data : {JDict([total_count |-> n, items |-> JList([k \in 1..n |-> JDict([name |-> <<"R", "E", "A", "D", "M", "E", ".", "m", "d">>])])]) : n \in 0..MaxItems}]
            \cup [status : {"bad_json", "timeout", "http_error"}, data : {JStr(<<>>)}]
    IN  [kind : {"github"},
         source_config : {[search_method |-> "github_api", search_repo |-> r] : r \in Repos},
         query : {<<>>, <<"f", "o", "o">>, <<"q", " ", "w">>},
         net : Responses]

InitParsers ==
    /\ InitEngine
    /\ input \in MarkdownInputs \cup ApiInputs \cup HtmlInputs \cup GithubInputs
    /\ output = NoOutput
    /\ InitApp

\* _search_awesome_list hands the decoded README to the parser
ParseMarkdown ==
    /\ input.kind = "markdown"
    /\ ~output.returned
    /\ output' = [returned |-> TRUE,
                  results |-> _parse_awesome_list_content(input.content, ConfigSections["s2"],
                                                          input.query)]
    /\ UNCHANGED <<app_vars, now, cache, pc, category_locals, last, thread_vars, input>>

\* response.json() decodes the body: _search_api calls _parse_api_response
ParseJson ==
    /\ input.kind = "json"
    /\ ~output.returned
    /\ output' = [returned |-> TRUE,
                  results |-> _parse_api_response(input.body, ConfigSections["s1"])]
    /\ UNCHANGED <<app_vars, now, cache, pc, category_locals, last, thread_vars, input>>

\* response.json() raises JSONDecodeError: _search_api calls _parse_text_response
ParseText ==
    /\ input.kind = "text"
    /\ ~output.returned
    /\ output' = [returned |-> TRUE,
                  results |-> _parse_text_response(input.body, ConfigSections["s1"])]
    /\ UNCHANGED <<app_vars, now, cache, pc, category_locals, last, thread_vars, input>>

\* _parse_search_results_html hands the page of a site without an extractor
\* of its own to _parse_generic_results
ParseGeneric ==
    /\ input.kind = "html"
    /\ ~output.returned
    /\ output' = [returned |-> TRUE,
                  results |-> _parse_generic_results(input.nodes, "Unknown", input.base_url,
                                                     input.search_url)]
    /\ UNCHANGED <<app_vars, now, cache, pc, category_locals, last, thread_vars, input>>

\* _search_github_api: the request, and _parse_github_response on the
\* decoded response; a RequestException gives [], a body that is not JSON
\* makes response.json() raise
ParseGithub ==
    /\ input.kind = "github"
    /\ ~output.returned
    /\ LET repo == Get(input.source_config, "search_repo", <<>>)
       IN  output' = [returned |-> TRUE,
                      results |-> IF repo = <<>> THEN <<>>
                                  ELSE IF IsRequestException(input.net) THEN <<>>
                                  ELSE IF input.net.status = "bad_json" THEN <<>>
                                  ELSE _parse_github_response(input.net.data, input.source_config, repo)]
    /\ UNCHANGED <<app_vars, now, cache, pc, category_locals, last, thread_vars, input>>

NextParsers ==
    \/ ParseMarkdown
    \/ ParseJson
    \/ ParseText
    \/ ParseGeneric
    \/ ParseGithub

SpecParsers == InitParsers /\ [][NextParsers]_vars

-----------------------------------------------------------------------------
(* ConfigManager: the search history.  The SEARCH_HISTORY section of the   *)
(* ConfigParser holds the raw values of the options search_1..search_10,   *)
(* an option that is not set reading as ''.  ConfigParser checks a value   *)
(* it is given (before_set) and expands a value it is asked for            *)
(* (interpolate); the keys "%(name)s" of the terms below name no option.   *)

\* the number of options search_1..search_10
history_limit == 10

\* BasicInterpolation.before_get: the value read, or None when it raises
RECURSIVE interpolate(_)
interpolate(rest) ==
    LET then(c, r) == IF r.some THEN Some(<<c>> \o r.val) ELSE None
    IN  IF rest = <<>> THEN Some(<<>>)
        ELSE IF rest[1] # "%" THEN then(rest[1], interpolate(Tail(rest)))
        ELSE IF Len(rest) >= 2 /\ rest[2] = "%" THEN then("%", interpolate(From(rest, 3)))
        ELSE None

\* BasicInterpolation.before_set: FALSE when it raises ValueError
before_set(value) ==
    LET RECURSIVE without_escapes(_)
        \* value.replace('%%', '')
        without_escapes(s) ==
            IF Len(s) < 2 THEN s
            ELSE IF s[1] = "%" /\ s[2] = "%" THEN without_escapes(From(s, 3))
            ELSE <<s[1]>> \o without_escapes(Tail(s))
        RECURSIVE without_keys(_)
        \* re.sub(r"%\(([^)]+)\)s", '', s)
        without_keys(s) ==
            LET close == Find(s, 3, ")")
            IN  IF s = <<>> THEN <<>>
                ELSE IF /\ startswith(s, <<"%", "(">>)
                        /\ close >= 4 /\ close < Len(s) /\ s[close + 1] = "s"
                     THEN without_keys(From(s, close + 2))
                ELSE <<s[1]>> \o without_keys(Tail(s))
    IN  ~In(<<"%">>, without_keys(without_escapes(value)))

\* the list returned, unless reading an option raises
get_search_history(cfg) ==
    IF ~cfg.SEARCH_HISTORY.some THEN [raised |-> FALSE, val |-> <<>>]
    ELSE LET section == cfg.SEARCH_HISTORY.val
             read == [k \in 1..history_limit |-> interpolate(section[k])]
         IN  IF \E k \in 1..history_limit : ~read[k].some
             THEN [raised |-> TRUE, val |-> <<>>]
             ELSE [raised |-> FALSE,
                   val |-> SelectSeq([k \in 1..history_limit |-> read[k].val],
                                     LAMBDA term : term # <<>>)]

\* the configuration after the call, and whether the call raised
add_to_search_history(cfg, search_term) ==
    IF strip(search_term) = <<>> THEN [config |-> cfg, raised |-> FALSE]
    ELSE
    LET got == get_search_history(cfg)
    IN  IF got.raised THEN [config |-> cfg, raised |-> TRUE]
        ELSE
        LET at == {k \in DOMAIN got.val : got.val[k] = search_term}
            removed ==
                IF at = {} THEN got.val
                ELSE LET p == CHOOSE k \in at : \A m \in at : k <= m
                     IN  Slice(got.val, 1, p - 1) \o From(got.val, p + 1)
            history == Prefix(<<search_term>> \o removed, history_limit)
            \* the entries set before a set raises
            done == {k \in DOMAIN history : \A m \in 1..k : before_set(history[m])}
        IN  [config |-> [SEARCH_HISTORY |->
                            Some([k \in 1..history_limit |->
                                     IF k \in done THEN history[k] ELSE <<>>])],
             raised |-> done # DOMAIN history]

\* the section a session finds: the n most recent plain terms of earlier
\* sessions, or no section
InitHistory ==
    /\ InitEngine
    /\ input = NoInput
    /\ output = NoOutput
    /\ \E n \in 0..history_limit :
          LET StoredHistory(m) ==
                  IF m = 0 THEN NoHistory
                  ELSE [SEARCH_HISTORY |-> Some([k \in 1..history_limit |->
                                                    IF k <= m THEN <<LowerCase[k]>> ELSE <<>>])]
          IN
          /\ config = StoredHistory(n)
          /\ searched = [earlier |-> [k \in 1..n |-> <<LowerCase[n + 1 - k]>>], session |-> <<>>]
    /\ cache_log = NoCacheLog
    /\ InitGui

AddToSearchHistory(search_term) ==
    /\ Len(searched.session) < MaxAdds
    /\ config' = add_to_search_history(config, search_term).config
    /\ searched' = [searched EXCEPT !.session = Append(@, search_term)]
    /\ UNCHANGED <<cache_log, gui_vars, now, cache, pc, category_locals, last, thread_vars, parser_vars>>

\* the search terms: plain ones, blank ones and ones with a percent sign
NextHistory ==
    LET HistoryTerms ==
            {<<LowerCase[k]>> : k \in 1..MaxTerms}
            \cup {<<" ">>, <<" ", "\t", " ">>}
            \cup {<<"1", "0", "0", "%">>, <<"5", "0", "%", "%">>, <<"%", "(", "x", ")", "s">>}
    IN  \E search_term \in HistoryTerms : AddToSearchHistory(search_term)

SpecHistory == InitHistory /\ [][NextHistory]_vars

-----------------------------------------------------------------------------
(* CacheManager called on its own: cache_results (set) and                 *)
(* get_cached_results (get) for source ids and queries that hold "_".      *)

\* cache_results(source, query, results)
CacheSet(source, q, res) ==
    /\ pc = "idle"
    /\ <<source, q, res>> \in cache_log.sets \/ Cardinality(cache_log.sets) < MaxSets
    /\ \E w \in WriteOutcomes : cache' = cache_results(cache, source, q, res, now, w)
    /\ cache_log' = [cache_log EXCEPT !.sets = @ \cup {<<source, q, res>>}]
    /\ UNCHANGED <<config, searched, gui_vars, now, pc, category_locals, last, thread_vars, parser_vars>>

\* get_cached_results(source, query)
CacheGet(source, q) ==
    /\ pc = "idle"
    /\ LET g == get_cached_results(cache, source, q, now)
       IN  /\ cache' = g.cache
           /\ cache_log' = [cache_log EXCEPT !.got = [source |-> source, query |-> q, value |-> g.value]]
    /\ UNCHANGED <<config, searched, gui_vars, now, pc, category_locals, last, thread_vars, parser_vars>>

NextCache ==
    LET CacheSources == {"a", "a_b"}
        CacheQueries == {"c", "b_c"}
    IN  \/ Tick
        \/ \E source \in CacheSources, q \in CacheQueries, res \in {<<RecA>>, <<RecA, RecB>>} :
               CacheSet(source, q, res)
        \/ \E source \in CacheSources, q \in CacheQueries : CacheGet(source, q)

SpecCache == Init /\ [][NextCache]_vars

-----------------------------------------------------------------------------
(* MCPSearchGUI: the search button, the validate button, the background    *)
(* threads and the callbacks they schedule on the main thread.  The main   *)
(* thread runs one handler at a time; messagebox.askyesno runs the event   *)
(* loop until it is answered, so handlers run while validate_sources waits *)

\* what a step of the application leaves of itself
Logged(op, handler_of) ==
    [op |-> op, before |-> GuiState,
     handled |-> IF handler_of = 0 THEN gui_log.handled ELSE Append(gui_log.handled, handler_of)]

\* threading.Thread(target=..., daemon=True).start() after the dialog is shown
StartThread(target, search_term) ==
    /\ started < MaxThreads
    /\ started' = started + 1
    /\ search_in_progress' = TRUE
    /\ loading_dialog' = started + 1
    /\ dialogs' = dialogs \cup {started + 1}
    /\ threads' = threads \cup {[id |-> started + 1, target |-> target, search_term |-> search_term]}

\* start_search, with search_entry holding search_term and a category selected
StartSearch(search_term) ==
    /\ gui_log' = Logged("start_search", 0)
    /\ IF search_in_progress
       THEN UNCHANGED <<config, search_in_progress, loading_dialog, current_results,
                        search_button, threads, dialogs, started>>
       ELSE LET added == add_to_search_history(config, search_term)
            IN  /\ config' = added.config
                /\ IF added.raised
                   THEN UNCHANGED <<search_in_progress, loading_dialog, current_results,
                                    search_button, threads, dialogs, started>>
                   ELSE /\ search_button' = "disabled"
                        /\ current_results' = <<>>
                        /\ StartThread("_perform_search", search_term)
    /\ UNCHANGED <<validate_button, after_queue, confirming>>
    /\ UNCHANGED <<searched, cache_log, now, cache, pc, category_locals, last, thread_vars, parser_vars>>

\* validate_sources up to the call of messagebox.askyesno
ValidateSources ==
    /\ gui_log' = Logged("validate_sources", 0)
    /\ IF search_in_progress
       THEN UNCHANGED confirming
       ELSE /\ confirming < MaxConfirm
            /\ confirming' = confirming + 1
    /\ UNCHANGED <<config, search_in_progress, loading_dialog, current_results, search_button,
                   validate_button, threads, after_queue, dialogs, started>>
    /\ UNCHANGED <<searched, cache_log, now, cache, pc, category_locals, last, thread_vars, parser_vars>>

\* validate_sources from the answer of messagebox.askyesno on
AskYesNoReturns(result) ==
    /\ confirming > 0
    /\ confirming' = confirming - 1
    /\ gui_log' = Logged("askyesno", 0)
    /\ IF result
       THEN /\ validate_button' = "disabled"
            /\ StartThread("_perform_validation", <<>>)
       ELSE UNCHANGED <<search_in_progress, loading_dialog, validate_button, threads, dialogs, started>>
    /\ UNCHANGED <<config, current_results, search_button, after_queue>>
    /\ UNCHANGED <<searched, cache_log, now, cache, pc, category_locals, last, thread_vars, parser_vars>>

\* the thread ends: self.after(0, ...) with the one handler its outcome selects
ThreadEnds(t, handler, all_results) ==
    /\ t \in threads
    /\ threads' = threads \ {t}
    /\ after_queue' = Append(after_queue, [handler |-> handler, id |-> t.id, all_results |-> all_results])
    /\ gui_log' = Logged(t.target, 0)
    /\ UNCHANGED <<config, search_in_progress, loading_dialog, current_results, search_button,
                   validate_button, dialogs, confirming, started>>
    /\ UNCHANGED <<searched, cache_log, now, cache, pc, category_locals, last, thread_vars, parser_vars>>

\* _perform_search: the categories found something, found nothing, or
\* something in the try block raised
_perform_search(t) ==
    /\ t.target = "_perform_search"
    /\ \/ ThreadEnds(t, "_handle_search_success", <<t.search_term>>)
       \/ ThreadEnds(t, "_handle_search_success", <<>>)
       \/ ThreadEnds(t, "_handle_search_error", <<>>)

\* _perform_validation: the validator returned, or something in the try block raised
_perform_validation(t) ==
    /\ t.target = "_perform_validation"
    /\ \/ ThreadEnds(t, "_handle_validation_success", <<>>)
       \/ ThreadEnds(t, "_handle_validation_error", <<>>)

\* the main thread runs the oldest scheduled callback, which begins with
\* _close_loading_dialog and ends with "self.search_in_progress = False"
Handle(handler) ==
    /\ after_queue # <<>>
    /\ Head(after_queue).handler = handler
    /\ after_queue' = Tail(after_queue)
    /\ dialogs' = dialogs \ {loading_dialog}
    /\ loading_dialog' = 0
    /\ search_in_progress' = FALSE
    /\ gui_log' = Logged(handler, Head(after_queue).id)
    /\ UNCHANGED <<config, threads, confirming, started>>
    /\ UNCHANGED <<searched, cache_log, now, cache, pc, category_locals, last, thread_vars, parser_vars>>

_handle_search_success ==
    /\ Handle("_handle_search_success")
    /\ current_results' = Head(after_queue).all_results
    /\ search_button' = "normal"
    /\ UNCHANGED validate_button

_handle_search_error ==
    /\ Handle("_handle_search_error")
    /\ search_button' = "normal"
    /\ UNCHANGED <<current_results, validate_button>>

_handle_validation_success ==
    /\ Handle("_handle_validation_success")
    /\ validate_button' = "normal"
    /\ UNCHANGED <<current_results, search_button>>

_handle_validation_error ==
    /\ Handle("_handle_validation_error")
    /\ validate_button' = "normal"
    /\ UNCHANGED <<current_results, search_button>>

NextGui ==
    \/ \E search_term \in {<<"a">>, <<"b">>, <<"1", "0", "0", "%">>} : StartSearch(search_term)
    \/ ValidateSources
    \/ \E result \in BOOLEAN : AskYesNoReturns(result)
    \/ \E t \in threads : _perform_search(t)
    \/ \E t \in threads : _perform_validation(t)
    \/ _handle_search_success
    \/ _handle_search_error
    \/ _handle_validation_success
    \/ _handle_validation_error

SpecGui == Init /\ [][NextGui]_vars

\* every thread ends and every scheduled callback runs
SpecGuiFair ==
    /\ SpecGui
    /\ WF_vars(\E t \in threads : _perform_search(t) \/ _perform_validation(t))
    /\ WF_vars(_handle_search_success \/ _handle_search_error
               \/ _handle_validation_success \/ _handle_validation_error)

-----------------------------------------------------------------------------
(* Properties of searchOnce, stated on the record of the most recent call *)

Called == last.source # ""

AllLists == RecordLists \cup FallbackLists

FailurePaths ==
    {"no_config", "unknown_method", "missing_field", "request_failed", "exception", "caught"}

\* age in hours of the file a call found, and the age up to which it is served
AgeOf(file, t) == t - file.mtime

Unexpired(file, t) == file.exists /\ AgeOf(file, t) <= max_age_hours

Expired(file, t) == file.exists /\ AgeOf(file, t) > max_age_hours

C3_Original ==
    (Called /\ last.path # "hit" /\ last.ret # <<>>) =>
        /\ last.post.exists
        /\ last.post.ok
        /\ last.post.data = last.ret

\* C3 amended: a call made with caching enabled that misses the cache and
\* obtains a non-empty list leaves, unless its cache write fails, a readable
\* cache file holding that list and dated at the time of the call; a call
\* made with caching disabled leaves the cache as it found it.
C3_WriteThrough ==
    Called =>
        /\ (last.use_cache /\ last.path # "hit" /\ last.ret # <<>> /\ last.write = "ok") =>
              /\ last.post.exists
              /\ last.post.ok
              /\ last.post.data = last.ret
              /\ last.post.mtime = last.t
        /\ ~last.use_cache => (last.post = last.pre /\ last.write = "")

C3_Witness ==
    /\ last.use_cache
    /\ last.path = "parsed"
    /\ last.ret = <<RecA, RecB>>
    /\ last.write = "ok"
    /\ last.pre.exists
    /\ last.pre.data # last.ret

\* C4: a call with caching enabled that finds an unexpired readable cache
\* file returns exactly the cached list and does no configuration lookup, no
\* HTTP request and no cache write.
C4_HitIsLocal ==
    (Called /\ last.use_cache /\ Unexpired(last.pre, last.t) /\ last.pre.ok) =>
        /\ last.ret = last.pre.data
        /\ last.path = "hit"
        /\ last.config_lookups = 0
        /\ last.http = 0
        /\ last.write = ""
        /\ last.post = last.pre

C4_Witness ==
    /\ last.use_cache
    /\ last.pre.ok
    /\ last.pre.data = <<RecA, RecB>>
    /\ AgeOf(last.pre, last.t) = max_age_hours
    /\ last.path = "hit"

\* C5: get never returns a cache file older than the ttl: it reports absent
\* and removes the file, and the searchOnce around it goes on to a live
\* fetch; a readable file of age at most the ttl is returned.
C5_Expiry ==
    /\ \A s \in Sources, q \in Queries :
          LET file == FileOf(cache, s, q)
              g    == get_cached_results(cache, s, q, now)
          IN  /\ Expired(file, now) =>
                    /\ ~g.value.some
                    /\ ~FileOf(g.cache, s, q).exists
              /\ (Unexpired(file, now) /\ file.ok) => g.value = Some(file.data)
    /\ (Called /\ last.use_cache /\ Expired(last.pre, last.t)) =>
          /\ last.path # "hit"
          /\ last.evicted
          /\ last.config_lookups = 1
          /\ last.http = 1
          /\ last.post.exists => last.post.mtime = last.t

C5_Witness ==
    /\ last.use_cache
    /\ Expired(last.pre, last.t)
    /\ last.pre.ok
    /\ last.evicted
    /\ last.http = 1
    /\ ~last.post.exists

C7_Original ==
    (Called /\ last.prev.same /\ last.t - last.prev.t <= max_age_hours) =>
        last.ret = last.prev.ret

\* C7 amended: of two consecutive calls with the same (source, query), both
\* with caching enabled, the second returns the list the first returned and
\* is served from the cache when the first returned a non-empty list, either
\* from the cache or from a live fetch whose cache write succeeded, and the
\* second comes at most the ttl after that cache file was written.
C7_Idempotent ==
    (/\ Called
     /\ last.prev.same
     /\ last.prev.ret # <<>>
     /\ last.prev.path = "hit" \/ last.prev.write = "ok"
     /\ last.t - last.prev.post.mtime <= max_age_hours) =>
        /\ last.ret = last.prev.ret
        /\ last.path = "hit"

C7_Witness ==
    /\ last.prev.same
    /\ last.prev.ret = <<RecA, RecB>>
    /\ last.prev.write = "ok"
    /\ last.t > last.prev.t
    /\ last.ret = <<RecA, RecB>>
    /\ last.path = "hit"

-----------------------------------------------------------------------------
(* Properties of search_category, stated on the log of its search() calls *)

Range(seq) == {seq[k] : k \in DOMAIN seq}

Max(S) == CHOOSE x \in S : \A y \in S : y <= x

CallsOf(s, pass) == {k \in DOMAIN log : log[k].source = s /\ log[k].pass = pass}

NonEmptyCallsOf(s, pass) == {k \in CallsOf(s, pass) : log[k].ret # <<>>}

\* the sources with an empty first-pass result
FirstPassEmpty == {s \in Range(sources) : \E k \in CallsOf(s, "first") : log[k].ret = <<>>}

\* C2 as stated: in every call of search_category, with or without a
\* progress callback, a source whose first-pass result was empty is retried,
\* and when the retry returns records the returned map holds them under the
\* source id.
C2_Original ==
    pc = "done" =>
        \A s \in FirstPassEmpty :
            /\ CallsOf(s, "retry") # {}
            /\ NonEmptyCallsOf(s, "retry") # {} =>
                  /\ s \in DOMAIN results
                  /\ results[s] = log[Max(NonEmptyCallsOf(s, "retry"))].ret

\* C8: every source of the category is searched in the first pass, in the
\* order of the list, whatever the earlier sources returned; no result of a
\* source makes search_category raise; and every source that returned records
\* in the first pass is a key of the returned map.
C8_NoAbort ==
    /\ pc \in {"retry", "done"} =>
          /\ Len(log) >= Len(sources)
          /\ \A k \in 1..Len(sources) : log[k].pass = "first" /\ log[k].source = sources[k]
    /\ pc = "raised" => raised_by = "progress_callback"
    /\ pc = "done" =>
          \A k \in DOMAIN log :
              (log[k].pass = "first" /\ log[k].ret # <<>>) => log[k].source \in DOMAIN results

C8_Witness ==
    /\ pc = "done"
    /\ Len(sources) = 2
    /\ progress_callback = "none"
    /\ log[1].ret = <<>>
    /\ log[2].ret # <<>>
    /\ results = Put(EmptyMap, sources[2], log[2].ret)

\* C9: the keys of the returned map are source ids of the category, every
\* key maps to a non-empty list, and a source all of whose searches returned
\* an empty list is not a key.
C9_MapShape ==
    pc = "done" =>
        /\ DOMAIN results \subseteq Range(sources)
        /\ \A s \in DOMAIN results : results[s] # <<>>
        /\ \A s \in Range(sources) :
              (NonEmptyCallsOf(s, "first") = {} /\ NonEmptyCallsOf(s, "retry") = {}) =>
                  s \notin DOMAIN results

C9_Witness ==
    /\ pc = "done"
    /\ \E s \in Range(sources) :
          /\ CallsOf(s, "retry") # {}
          /\ NonEmptyCallsOf(s, "first") = {}
          /\ NonEmptyCallsOf(s, "retry") = {}
          /\ s \notin DOMAIN results
    /\ DOMAIN results # {}

\* C10 as stated: retries start after the first pass over all sources, only
\* sources with an empty first-pass result are retried, each of them at most
\* once, and no retry reads the cache.
C10_Original ==
    /\ \A k \in DOMAIN log :
          log[k].pass = "retry" =>
              /\ k > Len(sources)
              /\ \A m \in 1..Len(sources) : log[m].pass = "first"
              /\ log[k].source \in FirstPassEmpty
              /\ log[k].cache_reads = 0
    /\ \A s \in Sources : Cardinality(CallsOf(s, "retry")) <= 1

\* the sources whose first-pass search took one of the given branches of search()
FirstPassVia(paths) ==
    {s \in Range(sources) : \E k \in CallsOf(s, "first") : log[k].path \in paths}

\* C11 as stated: a source without a [SOURCE_<id>] section, or whose section
\* lacks the field its strategy requires, returns no records and is never
\* searched in the retry pass of a search_category call.
C11_Original ==
    /\ \A k \in DOMAIN log :
          log[k].path \in {"no_config", "missing_field"} => log[k].ret = <<>>
    /\ \A s \in FirstPassVia({"no_config", "missing_field"}) : CallsOf(s, "retry") = {}

\* C12 as stated: a search whose HTTP call times out or fails returns an
\* empty list, and once search_category has returned, a source whose
\* first-pass search failed that way has been retried exactly once.
C12_Original ==
    /\ \A k \in DOMAIN log : log[k].path = "request_failed" => log[k].ret = <<>>
    /\ pc = "done" =>
          \A s \in FirstPassVia({"request_failed"}) : Cardinality(CallsOf(s, "retry")) = 1

-----------------------------------------------------------------------------
(* Properties of concurrent callers and of cancellation *)

\* C13 as stated: at every moment at most one request is in flight for a
\* given (source, query): a search() issued while an identical one is waiting
\* for its response does not send a second request.
C13_Original ==
    ~(fetch.active /\ other.active /\ fetch.source = other.source /\ fetch.query = other.query)

\* C14 as stated: once the caller has asked to cancel a running
\* search_category, no further request is sent, and the map returned is the
\* map of the results collected when the caller asked.
C14_Original ==
    cancel.requested =>
        /\ cancel.fetched = 0
        /\ pc = "done" => results = cancel.results

-----------------------------------------------------------------------------
(* Properties of the markdown list parser *)

Doc17 ==
    join(<<<<"#", " ", "S", "e", "r", "v", "e", "r", "s">>,
           <<"-", " ", "[", "F", "o", "o", "]", "(", "h", "t", "t", "p", ":", "/", "/", "a", ")", " ", "-", " ", "b", "a", "r", " ", "t", "h", "i", "n", "g">>,
           <<"-", " ", "[", "T", "a", "b", "l", "e", " ", "o", "f", " ", "C", "o", "n", "t", "e", "n", "t", "s", "]", "(", "h", "t", "t", "p", ":", "/", "/", "b", ")">>>>, <<"\n">>)

RecFoo(r) ==
    /\ r.name = <<"F", "o", "o">>
    /\ r.url = <<"h", "t", "t", "p", ":", "/", "/", "a">>
    /\ In(<<"b", "a", "r", " ", "t", "h", "i", "n", "g">>, r.description)

\* C17: on the README made of the heading "# Servers", the item
\* "- [Foo](http://a) - bar thing" and the item "- [Table of Contents](http://b)",
\* the parser returns exactly one record for the query "foo", with name "Foo",
\* url "http://a" and a description that contains "bar thing", and the same
\* single record for the query "bar".
C17_FooOnly ==
    (output.returned /\ input.kind = "markdown" /\ input.content = Doc17 /\ input.query \in {<<"f", "o", "o">>, <<"b", "a", "r">>}) =>
        /\ Len(output.results) = 1
        /\ RecFoo(output.results[1])

C17_Witness ==
    /\ output.returned
    /\ input.kind = "markdown"
    /\ input.content = Doc17
    /\ input.query = <<"b", "a", "r">>
    /\ Len(output.results) = 1
    /\ RecFoo(output.results[1])

\* the list item of a line: its link and the text after the link
ListItem(line) ==
    LET ks == {k \in DOMAIN patterns : re_match(patterns[k], strip(line)).ok}
    IN  IF ks = {} THEN NoMatch
        ELSE re_match(patterns[CHOOSE k \in ks : \A m \in ks : k <= m], strip(line))

HasNoise(text) == \E skip \in skip_patterns : In(skip, lower(text))

\* C18 as stated: for every README and every query, no returned record is
\* built from a list item whose link text or trailing text contains, in any
\* letter case, an entry of skip_patterns.
C18_Original ==
    (output.returned /\ input.kind = "markdown") =>
        \A line \in Range(split(input.content, "\n")) :
            LET item == ListItem(line)
            IN  (item.ok /\ (HasNoise(item.name) \/ HasNoise(item.rest))) =>
                    \A k \in DOMAIN output.results :
                        ~(/\ output.results[k].name = strip(item.name)
                          /\ output.results[k].url = strip(item.url))

-----------------------------------------------------------------------------
(* Properties of the records the parsers return *)

\* C15 as stated: whatever the response holds, no record of the list a
\* parser returns has an empty name.
C15_Original ==
    output.returned => \A k \in DOMAIN output.results : output.results[k].name # <<>>

\* C16 as stated: every record of the list a parser returns has a non-empty
\* url or a non-empty github_url.
C16_Original ==
    output.returned =>
        \A k \in DOMAIN output.results :
            output.results[k].url # <<>> \/ output.results[k].github_url # <<>>

-----------------------------------------------------------------------------
(* Properties of the generic HTML pipeline *)

UtilityHrefs == {<<"/", "l", "o", "g", "i", "n">>, <<"/", "n", "e", "w">>, <<"/", "s", "e", "a", "r", "c", "h", "?", "q", "=", "x">>}

\* the hrefs of all hyperlinks of a page
AllHrefs(nodes) == {l.href : l \in Range(find_all_links(nodes))}

\* C19: on a page whose only hyperlinks point to "/login", "/new" and
\* "/search?q=x", the generic pipeline returns no record.
C19_UtilityOnly ==
    (output.returned /\ input.kind = "html" /\ AllHrefs(input.nodes) = UtilityHrefs) => output.results = <<>>

C19_Witness ==
    /\ output.returned
    /\ input.kind = "html"
    /\ AllHrefs(input.nodes) = UtilityHrefs
    /\ Len(result_elements(input.nodes, input.search_url)) > 1
    /\ output.results = <<>>

\* C20: whatever the number of elements the selectors or the link scan find
\* on a page, one call of the generic pipeline returns at most result_limit
\* (50) records.
C20_Ceiling ==
    (output.returned /\ input.kind = "html") => Len(output.results) <= result_limit

C20_Witness ==
    /\ output.returned
    /\ input.kind = "html"
    /\ Len(result_elements(input.nodes, input.search_url)) > result_limit
    /\ Len(output.results) = result_limit


-----------------------------------------------------------------------------
(* Properties of the search history *)

\* the terms searched that are not blank, oldest first
SearchedTerms == SelectSeq(searched.earlier \o searched.session, LAMBDA term : strip(term) # <<>>)

\* the distinct terms of seq, the most recently added first, at most n of them
MostRecent(seq, n) ==
    LET lasts == {k \in DOMAIN seq : \A m \in DOMAIN seq : m > k => seq[m] # seq[k]}
        size  == IF Cardinality(lasts) < n THEN Cardinality(lasts) ELSE n
    IN  [r \in 1..size |->
            seq[CHOOSE k \in lasts : Cardinality({m \in lasts : m >= k}) = r]]

\* C21 as stated: after any sequence of add_to_search_history calls the
\* stored history reads as the distinct terms searched that are not blank,
\* the most recent first, at most history_limit (10) of them: a term already
\* present moves to the front, an 11th distinct term drops the oldest one, a
\* blank term changes nothing.
C21_Original ==
    get_search_history(config) = [raised |-> FALSE, val |-> MostRecent(SearchedTerms, history_limit)]


-----------------------------------------------------------------------------
(* Properties of the markdown list parser, line by line *)

\* the lines of the README of the call
ContentLines == split(input.content, "\n")

IsHeading(line) == startswith(strip(line), <<"#">>)

\* the text of a heading line: the line without its marks, stripped
HeadingText(line) ==
    LET stripped == strip(line)
    IN  strip(From(stripped, SkipWhile(stripped, 1, {"#"})))

\* the section in force at line k: the text of the last heading above it
SectionAt(lines, k) ==
    LET above == {m \in 1..(k - 1) : IsHeading(lines[m])}
    IN  IF above = {} THEN <<>>
        ELSE HeadingText(lines[CHOOSE m \in above : \A n \in above : n <= m])

\* what the parser returns for the first k lines of the README
ParsedUpTo(k) ==
    _parse_awesome_list_content(join(Prefix(ContentLines, k), <<"\n">>), ConfigSections["s2"], input.query)

\* the list item of line k passes the filter of step 3 and the query filter
Kept(lines, k, q) ==
    LET item == ListItem(lines[k])
        name == strip(item.name)
        description == clean_description(item.text)
    IN  /\ ~IsHeading(lines[k])
        /\ item.ok
        /\ Len(name) >= 2 /\ ~HasNoise(name) /\ ~HasNoise(description)
        /\ \/ In(lower(q), lower(name))
           \/ In(lower(q), lower(description))
           \/ In(lower(q), lower(SectionAt(lines, k)))

\* the names and urls of the items of the lines from k on that are kept
RECURSIVE KeptItems(_, _, _)
KeptItems(lines, k, q) ==
    IF k > Len(lines) THEN <<>>
    ELSE (IF Kept(lines, k, q)
          THEN <<<<strip(ListItem(lines[k]).name), strip(ListItem(lines[k]).url)>>>>
          ELSE <<>>) \o KeptItems(lines, k + 1, q)

\* C22 as stated: the records returned are, in document order, the list
\* items that pass the filter of step 3 (a name of two characters or more,
\* no entry of skip_patterns in the name or in the cleaned trailing text) and
\* whose name, cleaned trailing text or section heading contains the query
\* in any letter case: each such item gives a record and no other record is
\* returned.
C22_Original ==
    (output.returned /\ input.kind = "markdown") =>
        [k \in DOMAIN output.results |-> <<output.results[k].name, output.results[k].url>>]
            = KeptItems(ContentLines, 1, input.query)

\* C23: a heading line adds no record to what the lines above it gave, and
\* every record a list item adds carries as its category the text of the
\* last heading above that line (the empty string when there is none).
C23_Section ==
    (output.returned /\ input.kind = "markdown") =>
        \A k \in DOMAIN ContentLines :
            LET before == ParsedUpTo(k - 1)
                upto   == ParsedUpTo(k)
            IN  /\ Prefix(upto, Len(before)) = before
                /\ IsHeading(ContentLines[k]) => upto = before
                /\ \A m \in (Len(before) + 1)..Len(upto) :
                       upto[m].category = SectionAt(ContentLines, k)
                /\ k = Len(ContentLines) => upto = output.results

C23_Witness ==
    /\ output.returned
    /\ input.kind = "markdown"
    /\ Len(ContentLines) = 3
    /\ HeadingText(ContentLines[1]) = <<"S", "e", "r", "v", "e", "r", "s">>
    /\ HeadingText(ContentLines[2]) = <<"T", "o", "o", "l", "s">>
    /\ Len(output.results) = 1
    /\ output.results[1].category = <<"T", "o", "o", "l", "s">>

-----------------------------------------------------------------------------
(* Properties of the plain-text fallback of the api strategy *)

\* the lines of seq that are not blank, stripped and cut as a record name is
NamesOf(seq) ==
    LET kept == SelectSeq(seq, LAMBDA line : strip(line) # <<>>)
    IN  [k \in DOMAIN kept |-> Prefix(strip(kept[k]), text_name_limit)]

ReturnedNames == [k \in DOMAIN output.results |-> output.results[k].name]

\* C24 as stated: when the body is not JSON the api strategy returns one
\* record for each of the first text_line_limit (10) non-empty lines of the
\* body, in order, so that a body with 10 non-empty lines or more gives 10
\* records, blank lines or not.
C24_Original ==
    (output.returned /\ input.kind = "text") =>
        ReturnedNames = Prefix(NamesOf(split(input.body, "\n")), text_line_limit)

\* C24 amended: when the body is not JSON the api strategy returns one
\* record for each non-empty line among the first text_line_limit (10) lines
\* of the body, in order: a blank line among them is not made up for by a
\* later line.
C24_FirstLines ==
    (output.returned /\ input.kind = "text") =>
        ReturnedNames = NamesOf(Prefix(split(input.body, "\n"), text_line_limit))

C24_Witness ==
    /\ output.returned
    /\ input.kind = "text"
    /\ Len(NamesOf(split(input.body, "\n"))) >= text_line_limit
    /\ Len(output.results) = text_line_limit - 2


-----------------------------------------------------------------------------
(* Properties of the records of the generic HTML pipeline *)

\* the elements the pipeline extracts from
ExtractedFrom == limit_elements(result_elements(input.nodes, input.search_url))

\* the record of element e, or None
RecordOf(e) ==
    _extract_result_from_element_enhanced(e, [name |-> "Unknown", url |-> input.base_url],
                                          input.base_url, input.search_url)

\* the hrefs of the links of element e, in document order
HrefsOf(e) ==
    LET all == (IF e.tag = "a" THEN <<e.href>> ELSE <<>>) \o [k \in DOMAIN e.links |-> e.links[k].href]
    IN  SelectSeq(all, LAMBDA href : href # <<>>)

ItemLike(href) ==
    \E pattern \in {<<"/", "s", "e", "r", "v", "e", "r">>, <<"/", "t", "o", "o", "l">>,
                    <<"/", "m", "c", "p">>, <<"/", "p", "r", "o", "j", "e", "c", "t">>,
                    <<"/", "r", "e", "p", "o">>} : In(pattern, href)

\* the url the claim gives the record of element e
PreferredUrl(e) ==
    LET hrefs == HrefsOf(e)
        items == SelectSeq(hrefs, ItemLike)
        href  == IF items # <<>> THEN Head(items) ELSE Head(hrefs)
    IN  IF startswith(href, <<"h", "t", "t", "p">>) THEN href ELSE urljoin(input.base_url, href)

\* C25 as stated: the url of the record of an element with several links
\* is its first link, in document order, that holds a result-like fragment
\* ("/server", "/tool", "/mcp", "/project", "/repo"), the first link of the
\* element when none does, made absolute against the base url.
C25_Original ==
    (output.returned /\ input.kind = "html") =>
        \A k \in DOMAIN ExtractedFrom :
            LET e == ExtractedFrom[k]
            IN  (RecordOf(e).some /\ \E m \in DOMAIN output.results : output.results[m] = RecordOf(e).val) =>
                    RecordOf(e).val.url = PreferredUrl(e)


CursorSearch == In(<<"c", "u", "r", "s", "o", "r", ".", "d", "i", "r", "e", "c", "t", "o", "r", "y">>, input.search_url)

\* C26: no record the generic pipeline returns has a url that holds an entry
\* of garbage_patterns ("/new", "/create", "/search", "/filter", "/login",
\* ...), an empty name, a name that is, stripped and in lower case, an entry
\* of generic_names, or a stripped name of fewer than 3 characters; for a
\* search url on cursor.directory every record returned has a url that holds
\* "/mcp/" and more than 4 "/".
C26_Valid ==
    (output.returned /\ input.kind = "html") =>
        \A k \in DOMAIN output.results :
            LET r == output.results[k]
            IN  /\ \A pattern \in garbage_patterns : ~In(pattern, r.url)
                /\ r.name # <<>>
                /\ strip(lower(r.name)) \notin generic_names
                /\ Len(strip(r.name)) >= 3
                /\ CursorSearch =>
                       /\ In(<<"/", "m", "c", "p", "/">>, r.url)
                       /\ Cardinality({m \in DOMAIN r.url : r.url[m] = "/"}) > 4

\* a cursor.directory page that gives a record, and elements whose records
\* the filter drops for their url, for their name and for their depth
C26_Witness ==
    /\ output.returned
    /\ input.kind = "html"
    /\ CursorSearch
    /\ output.results # <<>>
    /\ \E k \in DOMAIN ExtractedFrom :
          /\ RecordOf(ExtractedFrom[k]).some
          /\ \A m \in DOMAIN output.results : output.results[m] # RecordOf(ExtractedFrom[k]).val


-----------------------------------------------------------------------------
(* Properties of the github_api strategy *)

GithubRepo == input.source_config.search_repo

\* the part of a repository id after its last "/"
LastSegment(repo) ==
    LET slashes == {k \in DOMAIN repo : repo[k] = "/"}
    IN  IF slashes = {} THEN repo
        ELSE From(repo, (CHOOSE k \in slashes : \A m \in slashes : m <= k) + 1)

\* C27: for a source with a repository id, a code-search request that is
\* answered yields exactly one record, named after the last segment of the
\* repository id, with url and github_url "https://github.com/<id>",
\* whatever the query and the number of hits; a request that fails yields no
\* record.
C27_RepoRecord ==
    (output.returned /\ input.kind = "github" /\ GithubRepo # <<>>) =>
        /\ input.net.status = "ok" =>
              /\ Len(output.results) = 1
              /\ output.results[1].name = LastSegment(GithubRepo)
              /\ output.results[1].url = <<"h", "t", "t", "p", "s", ":", "/", "/", "g", "i", "t", "h", "u", "b", ".", "c", "o", "m", "/">> \o GithubRepo
              /\ output.results[1].github_url = <<"h", "t", "t", "p", "s", ":", "/", "/", "g", "i", "t", "h", "u", "b", ".", "c", "o", "m", "/">> \o GithubRepo
        /\ input.net.status \in {"timeout", "http_error"} => output.results = <<>>

C27_Witness ==
    /\ output.returned
    /\ input.kind = "github"
    /\ input.net.status = "ok"
    /\ input.net.data.v["items"].v = <<>>
    /\ input.query # <<>>
    /\ Len(output.results) = 1
    /\ output.results[1].name = <<"s", "e", "r", "v", "e", "r", "s">>


-----------------------------------------------------------------------------
(* Properties of the cache slots *)

\* C28 as stated: what get_cached_results(s, q) returns was stored by a
\* cache_results call with the same s and the same q, also for source ids
\* and queries that hold "_".
C28_Original ==
    cache_log.got.value.some =>
        <<cache_log.got.source, cache_log.got.query, cache_log.got.value.val>> \in cache_log.sets


-----------------------------------------------------------------------------
(* Properties of the application window *)

\* a start_search or validate_sources call made while search_in_progress
\* was true has just returned
RefusedCall ==
    /\ gui_log.op \in {"start_search", "validate_sources"}
    /\ gui_log.before.search_in_progress

HandledTimes(id) == Cardinality({k \in DOMAIN gui_log.handled : gui_log.handled[k] = id})

\* a success or error handler of a search has just run
SearchHandled == gui_log.op \in {"_handle_search_success", "_handle_search_error"}

C30_Completes ==
    \A id \in 1..MaxThreads :
        (\E t \in threads : t.id = id /\ t.target = "_perform_search") ~> (HandledTimes(id) = 1)

====
